---- MODULE Spec2Model ----
(***************************************************************************)
(* tman (Leovalcante/tmanager): the tool registry (Config), the tool model *)
(* (Repository, LocalFile), the query helper find_tool and the commands    *)
(* that mutate the registry.                                               *)
(*                                                                         *)
(* Python strings are sequences of one-character strings; Python None is   *)
(* the empty tuple and a present optional value v is the 1-tuple <<v>>.    *)
(***************************************************************************)
EXTENDS Integers, Sequences, FiniteSets, TLC

VARIABLES
    cfg,      \* the in-memory Config of the command that ran last
    saved,    \* the persisted registry file ~/.tman/config.json
    dirs,     \* pathnames that exist on disk as directories
    files,    \* pathnames that exist on disk as regular files
    now,      \* the clock read by time.time() / utl_dates.now()
    last      \* the last command or call: its inputs, pre-state and outcome, and,
              \* while scan runs, where its main thread and its search thread are

vars == <<cfg, saved, dirs, files, now, last>>

----------------------------------------------------------------------------
(* Bounds of the model *)

MaxTools == 2   \* longest registry drawn as an input of the pure functions
MaxTime == 3    \* the clock stops here
MaxLines == 2   \* most lines of an input file (add -i, conf.tman of import-conf)

----------------------------------------------------------------------------
(* Python values *)

PyNone == <<>>
Some(v) == <<v>>
IsNone(o) == o = <<>>
Val(o) == o[1]

\* container kinds that the operator `in` distinguishes
Str(s) == [k |-> "str", v |-> s]
Tuple(t) == [k |-> "tuple", v |-> t]

----------------------------------------------------------------------------
(* str methods *)

LowerChar(c) ==
    CASE c = "A" -> "a"
      [] c = "B" -> "b"
      [] c = "X" -> "x"
      [] c = "Y" -> "y"
      [] OTHER -> c

Lower(s) == IF s = <<>> THEN <<>> ELSE [i \in 1..Len(s) |-> LowerChar(s[i])]

EndsWith(s, suf) ==
    /\ Len(s) >= Len(suf)
    /\ SubSeq(s, Len(s) - Len(suf) + 1, Len(s)) = suf

StartsWith(s, pre) ==
    /\ Len(s) >= Len(pre)
    /\ SubSeq(s, 1, Len(pre)) = pre

\* sub in s, for two strings
Contains(s, sub) ==
    \E i \in 0..(Len(s) - Len(sub)) : SubSeq(s, i + 1, i + Len(sub)) = sub

RECURSIVE RStrip(_, _)
RStrip(s, c) ==
    IF s # <<>> /\ s[Len(s)] = c THEN RStrip(SubSeq(s, 1, Len(s) - 1), c) ELSE s

RECURSIVE LStrip(_, _)
LStrip(s, c) ==
    IF s # <<>> /\ s[1] = c THEN LStrip(Tail(s), c) ELSE s

\* s.strip(): the only whitespace of the alphabet is the blank
Strip(s) == LStrip(RStrip(s, " "), " ")

\* s.replace(c, "")
RemoveChar(s, c) == SelectSeq(s, LAMBDA x : x # c)

\* s.split(c): the pieces between the occurrences of c, never empty as a list
RECURSIVE SplitFrom(_, _, _, _)
SplitFrom(s, c, i, cur) ==
    IF i > Len(s) THEN <<cur>>
    ELSE IF s[i] = c THEN <<cur>> \o SplitFrom(s, c, i + 1, <<>>)
    ELSE SplitFrom(s, c, i + 1, Append(cur, s[i]))

Split(s, c) == SplitFrom(s, c, 1, <<>>)

LastOf(l) == l[Len(l)]

\* x in container
PyIn(x, c) ==
    IF c.k = "str" THEN Contains(c.v, x)
    ELSE \E i \in 1..Len(c.v) : c.v[i] = x

\* x in l, for a list l
InSeq(x, l) == \E i \in 1..Len(l) : l[i] = x

\* iterating a container: a str yields its characters
Items(c) ==
    IF c.k = "str" THEN [i \in 1..Len(c.v) |-> <<c.v[i]>>] ELSE c.v

Truthy(c) == c.v # <<>>

DotGit == <<".", "g", "i", "t">>
SlashDotGit == <<"/", ".", "g", "i", "t">>

----------------------------------------------------------------------------
(* core/tool: Tool, Repository, LocalFile *)

\* Tool.__init__: the eight fields of a tool; attr_last_update_date is the
\* attribute self.last_update_date that Repository._perform assigns, which is
\* not the field self._last_update_date
Tool(url, directory, name, type, tags, add_date, install_date, last_update_date) ==
    [name |-> name, url |-> url, tags |-> tags, type |-> type,
     directory |-> directory, add_date |-> add_date,
     install_date |-> install_date, last_update_date |-> last_update_date,
     attr_last_update_date |-> PyNone]

\* Tool.__dict__: the storage record, built from the underscore fields only
ToDict(t) ==
    [name |-> t.name, url |-> t.url, tags |-> t.tags, type |-> t.type,
     directory |-> t.directory, add_date |-> t.add_date,
     install_date |-> t.install_date, last_update_date |-> t.last_update_date]

\* Repository.__init__ (name is optional)
Repository(url0, directory0, name0, tags, add_date, install_date, last_update_date) ==
    LET u1 == RStrip(url0, "/")
        url == IF EndsWith(u1, DotGit) THEN u1 ELSE u1 \o DotGit
        seg == LastOf(Split(url, "/"))
        name == IF ~IsNone(name0) /\ Val(name0) # <<>> THEN Val(name0)
                ELSE SubSeq(seg, 1, Len(seg) - 4)
        directory == IF EndsWith(directory0, name) THEN directory0
                     ELSE directory0
                          \o (IF EndsWith(directory0, <<"/">>) THEN <<>> ELSE <<"/">>)
                          \o name
    IN Tool(url, directory, name, <<"g", "i", "t">>, tags,
            add_date, install_date, last_update_date)

\* LocalFile.__init__ (directory is optional)
LocalFile(pathname0, directory0, tags, add_date, install_date, last_update_date) ==
    LET pathname == RStrip(pathname0, "/")
        name == LastOf(Split(pathname, "/"))
        directory == IF IsNone(directory0) THEN pathname ELSE Val(directory0)
    IN Tool(<<"-">>, directory, name, <<"l", "o", "c", "a", "l">>, tags,
            add_date, install_date, last_update_date)

\* Tool.set_directory
set_directory(t, new_dir) ==
    [t EXCEPT !.directory =
        (IF EndsWith(new_dir, <<"/">>) THEN new_dir ELSE new_dir \o <<"/">>) \o t.name]

\* is_localfile / is_git_repo: called by the commands, defined by no source file
is_localfile(t) == t.type = <<"l", "o", "c", "a", "l">>
is_git_repo(t) == t.type = <<"g", "i", "t">>

\* os.path.isdir / os.path.exists on the modelled file system
IsDir(ds, p) == RStrip(p, "/") \in ds
Exists(ds, fs, p) == RStrip(p, "/") \in ds \/ p \in fs

\* is_installed: LocalFile.is_installed; Repository's is in no source file
is_installed(t, ds, fs) ==
    IF is_localfile(t) THEN Exists(ds, fs, t.directory) ELSE IsDir(ds, t.directory)

\* update_timestamps: LocalFile's does nothing; Repository's is in no source
\* file: it sets the install date and the last update date to now
update_timestamps(t, time) ==
    IF is_localfile(t) THEN t
    ELSE [t EXCEPT !.install_date = Some(time), !.last_update_date = Some(time)]

----------------------------------------------------------------------------
(* core/config: Config *)

\* Config.get_tools
get_tools(c, repo_only) ==
    LET build(r) ==
            IF r.url # <<"-">>
            THEN Repository(r.url, r.directory, Some(r.name), r.tags,
                            r.add_date, r.install_date, r.last_update_date)
            ELSE LocalFile(r.directory, PyNone, r.tags, r.add_date, PyNone, PyNone)
        all == IF c.tools = <<>> THEN <<>>
               ELSE [i \in 1..Len(c.tools) |-> build(c.tools[i])]
    IN SelectSeq(all, LAMBDA t : ~(repo_only /\ is_localfile(t)))

\* Config.already_managed
already_managed(c, tool, ds) ==
    LET ts == get_tools(c, FALSE)
    IN \E i \in 1..Len(ts) :
          \/ tool.name = ts[i].name
          \/ /\ IsDir(ds, ts[i].directory)
             /\ StartsWith(tool.directory, ts[i].directory)

\* Config.get_tool: the first tool of that name, or None
get_tool(c, tool_name) ==
    LET m == SelectSeq(get_tools(c, FALSE), LAMBDA t : t.name = tool_name)
    IN IF m = <<>> THEN PyNone ELSE Some(m[1])

\* Config.has_tool
has_tool(c, tool_name) == ~IsNone(get_tool(c, tool_name))

\* Config.add_tool
add_tool_cfg(c, tool) == [c EXCEPT !.tools = Append(@, ToDict(tool))]

\* list.remove(x): drops the first element equal to x
RECURSIVE RemoveFirst(_, _)
RemoveFirst(l, x) ==
    IF l = <<>> THEN <<>>
    ELSE IF Head(l) = x THEN Tail(l)
    ELSE <<Head(l)>> \o RemoveFirst(Tail(l), x)

\* list.remove raises ValueError in this case
NoRecord(c, tool) == \A i \in 1..Len(c.tools) : c.tools[i] # ToDict(tool)

\* Config.remove_tool
remove_tool(c, tool) == [c EXCEPT !.tools = RemoveFirst(@, ToDict(tool))]

\* Config.update_tool: the loop runs over the tools as they were at its start
RECURSIVE update_loop(_, _, _)
update_loop(c, snapshot, tool) ==
    IF snapshot = <<>> THEN c
    ELSE IF Head(snapshot).name = tool.name
         THEN update_loop(add_tool_cfg(remove_tool(c, Head(snapshot)), tool),
                          Tail(snapshot), tool)
         ELSE update_loop(c, Tail(snapshot), tool)

\* update_tool that overwrites the record where it is
update_tool_in_place(c, tool) ==
    [c EXCEPT !.tools = [i \in 1..Len(@) |->
                            IF @[i].name = tool.name THEN ToDict(tool) ELSE @[i]]]

update_tool(c, tool) == update_loop(c, get_tools(c, FALSE), tool)

\* a clearing that also puts automatic_install back to its default
remove_all_tools_resetting(c) ==
    [cfg |-> [c EXCEPT !.tools = <<>>, !.automatic_install = FALSE],
     count |-> Len(c.tools)]

\* Config.remove_all_tools: the new Config and the returned count
remove_all_tools(c) == [cfg |-> [c EXCEPT !.tools = <<>>], count |-> Len(c.tools)]

----------------------------------------------------------------------------
(* utilities/commands: sanitize_tags, is_git_url, find_tool *)

\* sanitize_tags: tags is None, a comma-separated str or a list of str
sanitize_tags(tags) ==
    IF IsNone(tags) \/ ~Truthy(Val(tags)) THEN <<>>
    ELSE LET l == IF Val(tags).k = "str" THEN Split(Val(tags).v, ",") ELSE Val(tags).v
             clean == [i \in 1..Len(l) |-> RemoveChar(Strip(l[i]), " ")]
         IN SelectSeq(clean, LAMBDA t : t # <<>>)

\* is_git_url
is_git_url(url) ==
    \/ StartsWith(url, <<"h", "t", "t", "p">>)
    \/ StartsWith(url, <<"g", "i", "t">>)

\* find_tool, line 29-30: the url criterion gets the .git suffix
find_url(url) ==
    IF IsNone(url) THEN PyNone
    ELSE IF EndsWith(Val(url), DotGit) THEN url ELSE Some(Val(url) \o DotGit)

\* find_tool, line 45: `if search_terms[key]`, for each kind of criterion
TermSet(o) == ~IsNone(o) /\ Val(o) # <<>>
ContainerSet(o) == ~IsNone(o) /\ Truthy(Val(o))
DateSet(o) == ~IsNone(o) /\ Val(o) # 0

\* find_tool, line 47-49
is_url_ok(tool, url) ==
    ~(TermSet(url) /\ ~Contains(Val(url), tool.url))

\* is_tags_ok comparing the tags as written, without lower()
is_tags_ok_cased(tool, tags) ==
    ~(tags # <<>>
      /\ ~({tags[i] : i \in 1..Len(tags)}
             \subseteq {tool.tags[j] : j \in 1..Len(tool.tags)}))

\* find_tool, line 52-55 (tags is the sanitized list)
is_tags_ok(tool, tags) ==
    ~(tags # <<>>
      /\ ~({Lower(tags[i]) : i \in 1..Len(tags)}
             \subseteq {Lower(tool.tags[j]) : j \in 1..Len(tool.tags)}))

\* is_name_ok whose flexible branch compares the names as written
is_name_ok_cased(tool, name, f) ==
    ~(ContainerSet(name)
      /\ IF f
         THEN ~\E i \in 1..Len(Items(Val(name))) :
                 LET t == Items(Val(name))[i]
                 IN tool.name = t \/ Contains(tool.name, t)
         ELSE ~PyIn(tool.name, Val(name)))

\* find_tool, line 58-71
is_name_ok(tool, name, f) ==
    ~(ContainerSet(name)
      /\ IF f
         THEN ~\E i \in 1..Len(Items(Val(name))) :
                 LET t == Items(Val(name))[i]
                 IN \/ Lower(tool.name) = Lower(t)
                    \/ Contains(Lower(tool.name), Lower(t))
         ELSE ~PyIn(tool.name, Val(name)))

\* find_tool, line 74-76
is_type_ok(tool, type) ==
    ~(ContainerSet(type) /\ ~PyIn(tool.type, Val(type)))

\* find_tool, line 79-82
is_last_update_date_ok(tool, last_update_date) ==
    ~(DateSet(last_update_date)
      /\ (\/ IsNone(tool.last_update_date)
          \/ Val(tool.last_update_date) < Val(last_update_date)))

\* find_tool whose line 85 accepts a tool when either its url or its tags match
find_tool_either(c, url, tags, name, type, last_update_date, f) ==
    LET stags == sanitize_tags(tags)
        surl == find_url(url)
    IN SelectSeq(get_tools(c, FALSE),
                 LAMBDA tool : /\ (is_url_ok(tool, surl) \/ is_tags_ok(tool, stags))
                               /\ is_name_ok(tool, name, f)
                               /\ is_type_ok(tool, type)
                               /\ is_last_update_date_ok(tool, last_update_date))

\* find_tool
find_tool(c, url, tags, name, type, last_update_date, f) ==
    LET stags == sanitize_tags(tags)
        surl == find_url(url)
    IN SelectSeq(get_tools(c, FALSE),
                 LAMBDA tool : /\ is_url_ok(tool, surl)
                               /\ is_tags_ok(tool, stags)
                               /\ is_name_ok(tool, name, f)
                               /\ is_type_ok(tool, type)
                               /\ is_last_update_date_ok(tool, last_update_date))

----------------------------------------------------------------------------
(* The strings the model draws its inputs from *)

DirT == <<"/", "t">>                          \* the default installation directory
DirTSlash == <<"/", "t", "/">>
DirTA == <<"/", "t", "/", "a">>
DirTAB == <<"/", "t", "/", "a", "b">>
DirTAC == <<"/", "t", "/", "a", "/", "c">>
DirW == <<"/", "w">>
PathWB == <<"/", "w", "/", "B">>
DirWA == <<"/", "w", "/", "a">>                  \* a repository that tman did not clone
DirWAGit == <<"/", "w", "/", "a", "/", ".", "g", "i", "t">>
UrlA == <<"g", "i", "t", "/", "a">>
UrlAGit == <<"g", "i", "t", "/", "a", ".", "g", "i", "t">>
UrlAB == <<"g", "i", "t", "/", "a", "b", "/">>
UrlADashB == <<"g", "i", "t", "/", "a", "-", "b">>
UrlC == <<"g", "i", "t", "/", "c">>
UrlT == <<"g", "i", "t", "/", "t">>
TypeGit == <<"g", "i", "t">>
TypeLocal == <<"l", "o", "c", "a", "l">>
TypesGitLocal == <<"g", "i", "t", ",", "l", "o", "c", "a", "l">>

\* every sequence over S of length at most n
SeqsUpTo(S, n) == UNION {[1..k -> S] : k \in 0..n}

\* the names of a list of records or tools
Names(l) == {l[i].name : i \in 1..Len(l)}
UniqueNames(l) == \A i, j \in 1..Len(l) : l[i].name = l[j].name => i = j

----------------------------------------------------------------------------
(* utilities/file_system and git *)

\* srblib.abs_path / os.path.abspath of an absolute pathname
AbsPath(p) == RStrip(p, "/")

\* trailing_slash
trailing_slash(ds, p) == IF IsDir(ds, p) THEN RStrip(p, "/") \o <<"/">> ELSE p

\* get_file_name
get_file_name(p) == LastOf(Split(RStrip(p, "/"), "/"))

\* is_writable: every pathname of the model that exists is writable
is_writable(ds, fs, p) == Exists(ds, fs, p)

\* the pathnames at or below p
Below(S, p) ==
    {q \in S : q = RStrip(p, "/") \/ StartsWith(q, RStrip(p, "/") \o <<"/">>)}

\* delete_from_fs: the directories and the files that remain
delete_from_fs(ds, fs, p) ==
    IF IsDir(ds, p)
    THEN [dirs |-> ds \ Below(ds, p), files |-> fs \ Below(fs, p)]
    ELSE [dirs |-> ds, files |-> fs \ {p}]

\* what git clone and git pull can do
CloneOutcomes == {"ok", "GitCommandError"}
PullOutcomes == {"ok", "Already up", "GitCommandError"}

\* a _perform that reports success for every exception
ExceptCodeSuccess(exc) == 0

\* Repository._perform, line 127-148: the first except clause that catches
\* the exception; GitCommandError, GitCommandNotFound and HookExecutionError
\* are subclasses of CommandError
ExceptCode(exc) ==
    CASE exc = "CheckoutError" -> 1
      [] exc \in {"CommandError", "GitCommandError", "GitCommandNotFound",
                  "HookExecutionError"} -> 2
      [] exc \in {"InvalidGitRepositoryError", "WorkTreeRepositoryUnsupported"} -> 6
      [] exc = "NoSuchPathError" -> 7
      [] exc = "RepositoryDirtyError" -> 8
      [] exc = "UnmergedEntriesError" -> 9
      [] OTHER -> 11

\* Repository._perform: the status code, the tool object and the directories
\* afterwards; git is what the git command does when it is run. A pull in a
\* directory that does not exist cannot start git (GitCommandNotFound).
perform(tool, func, git, ds, time) ==
    LET fine == [tool EXCEPT !.attr_last_update_date = Some(time)]
    IN IF func = "clone"
       THEN IF IsDir(ds, tool.directory)
            THEN [ret |-> 2, tool |-> tool, dirs |-> ds]
            ELSE IF git = "ok"
            THEN [ret |-> 0, tool |-> fine,
                  dirs |-> ds \cup {RStrip(tool.directory, "/"),
                                     RStrip(tool.directory, "/") \o SlashDotGit}]
            ELSE [ret |-> ExceptCode(git), tool |-> tool, dirs |-> ds]
       ELSE IF ~IsDir(ds, tool.directory)
            THEN [ret |-> ExceptCode("GitCommandNotFound"), tool |-> tool, dirs |-> ds]
            ELSE IF git = "ok" THEN [ret |-> 0, tool |-> fine, dirs |-> ds]
            ELSE IF git = "Already up" THEN [ret |-> 1, tool |-> tool, dirs |-> ds]
            ELSE [ret |-> ExceptCode(git), tool |-> tool, dirs |-> ds]

\* Repository.clone
clone(tool, git, ds, time) == perform(tool, "clone", git, ds, time)

\* Repository.update; LocalFile.update is in no source file: the update
\* command expects it to return 5
update(tool, git, ds, time) ==
    IF is_localfile(tool) THEN [ret |-> 5, tool |-> tool, dirs |-> ds]
    ELSE perform(tool, "pull", git, ds, time)

\* move_file of a pathname that exists to a destination that does not: the
\* pathnames at or below src are found at or below dst afterwards
Moved(S, src, dst) ==
    (S \ Below(S, src))
        \cup {RStrip(dst, "/") \o SubSeq(q, Len(RStrip(src, "/")) + 1, Len(q)) :
                q \in Below(S, src)}

move_file(ds, fs, src, dst) ==
    IF IsDir(ds, src) /\ RStrip(src, "/") = RStrip(dst, "/")
    THEN [dirs |-> ds, files |-> fs]
    ELSE [dirs |-> Moved(ds, src, dst), files |-> Moved(fs, src, dst)]

----------------------------------------------------------------------------
(* commands/add *)

\* Config.remove_tool for each tool of a list
RECURSIVE remove_tools(_, _)
remove_tools(c, ts) ==
    IF ts = <<>> THEN c ELSE remove_tools(remove_tool(c, Head(ts)), Tail(ts))

\* add_tool without the test of line 295: a candidate that is already
\* managed is added like any other
add_tool_unchecked(c, tool, ds, fs, git, time) ==
    LET repos == get_tools(c, TRUE)
        local_dir == is_localfile(tool) /\ IsDir(ds, tool.directory)
        tools_to_delete ==
            IF local_dir
            THEN SelectSeq(get_tools(c, FALSE),
                           LAMBDA t : /\ is_localfile(t)
                                      /\ StartsWith(t.directory, tool.directory))
            ELSE <<>>
        c1 == remove_tools(c, tools_to_delete)
        rejected(code) == [ret |-> code, cfg |-> c, save |-> FALSE, dirs |-> ds]
    IN IF is_localfile(tool) /\ ~Exists(ds, fs, tool.directory) THEN rejected(5)
       ELSE IF /\ local_dir
               /\ \E i \in 1..Len(repos) :
                     StartsWith(repos[i].directory, tool.directory)
       THEN rejected(6)
       ELSE IF c.automatic_install /\ is_git_repo(tool)
       THEN LET r == clone(tool, git, ds, time)
                cloned == [r.tool EXCEPT !.install_date = Some(time),
                                         !.last_update_date = Some(time)]
            IN IF r.ret = 0
               THEN [ret |-> 0, cfg |-> add_tool_cfg(c1, cloned),
                     save |-> TRUE, dirs |-> r.dirs]
               ELSE IF r.ret = 12
               THEN [ret |-> 1, cfg |-> c1, save |-> FALSE, dirs |-> r.dirs]
               ELSE [ret |-> 2, cfg |-> c1, save |-> FALSE, dirs |-> r.dirs]
       ELSE [ret |-> 0, cfg |-> add_tool_cfg(c1, tool), save |-> TRUE, dirs |-> ds]

\* add_tool: the status code, the Config object afterwards, whether
\* cfg.save() ran, and the directories on disk afterwards
add_tool(c, tool, ds, fs, git, time) ==
    LET repos == get_tools(c, TRUE)
        local_dir == is_localfile(tool) /\ IsDir(ds, tool.directory)
        tools_to_delete ==
            IF local_dir
            THEN SelectSeq(get_tools(c, FALSE),
                           LAMBDA t : /\ is_localfile(t)
                                      /\ StartsWith(t.directory, tool.directory))
            ELSE <<>>
        c1 == remove_tools(c, tools_to_delete)
        rejected(code) == [ret |-> code, cfg |-> c, save |-> FALSE, dirs |-> ds]
    IN IF is_localfile(tool) /\ ~Exists(ds, fs, tool.directory) THEN rejected(5)
       ELSE IF /\ local_dir
               /\ \E i \in 1..Len(repos) :
                     StartsWith(repos[i].directory, tool.directory)
       THEN rejected(6)
       ELSE IF already_managed(c, tool, ds) THEN rejected(3)
       ELSE IF c.automatic_install /\ is_git_repo(tool)
       THEN LET r == clone(tool, git, ds, time)
                cloned == [r.tool EXCEPT !.install_date = Some(time),
                                         !.last_update_date = Some(time)]
            IN IF r.ret = 0
               THEN [ret |-> 0, cfg |-> add_tool_cfg(c1, cloned),
                     save |-> TRUE, dirs |-> r.dirs]
               ELSE IF r.ret = 12
               THEN [ret |-> 1, cfg |-> c1, save |-> FALSE, dirs |-> r.dirs]
               ELSE [ret |-> 2, cfg |-> c1, save |-> FALSE, dirs |-> r.dirs]
       ELSE [ret |-> 0, cfg |-> add_tool_cfg(c1, tool), save |-> TRUE, dirs |-> ds]

\* parse_tools_from_csv, one line without the d= field: the tool it yields
\* (or None) and the file system afterwards; overwrite is the answer to the
\* prompt
parse_line(line, default_install_dir, ds, fs, overwrite, time) ==
    LET tags == sanitize_tags(Some(Tuple(line.tags)))
        dst_dir == default_install_dir \o get_file_name(line.url)
        none == [tool |-> PyNone, dirs |-> ds, files |-> fs]
    IN IF is_git_url(line.url)
       THEN [tool |-> Some(Repository(line.url, default_install_dir, PyNone, tags,
                                      Some(time), PyNone, PyNone)),
             dirs |-> ds, files |-> fs]
       ELSE IF line.url = dst_dir THEN none
       ELSE IF ~Exists(ds, fs, line.url) THEN none
       ELSE IF Exists(ds, fs, dst_dir)
       THEN IF overwrite
            THEN LET d == delete_from_fs(ds, fs, dst_dir)
                     m == move_file(d.dirs, d.files, line.url, dst_dir)
                 IN [tool |-> Some(LocalFile(dst_dir, PyNone, tags, Some(time),
                                             PyNone, PyNone)),
                     dirs |-> m.dirs, files |-> m.files]
            ELSE none
       ELSE LET m == move_file(ds, fs, line.url, dst_dir)
            IN [tool |-> Some(LocalFile(line.url, PyNone, tags, Some(time),
                                        PyNone, PyNone)),
                dirs |-> m.dirs, files |-> m.files]

\* parse_tools_from_csv: the tools of the lines, in order, and the file system
RECURSIVE parse_tools_from_csv(_, _, _, _, _, _)
parse_tools_from_csv(lines, default_install_dir, ds, fs, overwrite, time) ==
    IF lines = <<>> THEN [tools |-> <<>>, dirs |-> ds, files |-> fs]
    ELSE LET p == parse_line(Head(lines), default_install_dir, ds, fs, overwrite, time)
             rest == parse_tools_from_csv(Tail(lines), default_install_dir,
                                          p.dirs, p.files, overwrite, time)
         IN [rest EXCEPT !.tools = p.tool \o @]

\* add, line 60-62: add_tool for each parsed tool
RECURSIVE add_each(_, _, _, _, _)
add_each(st, tools, fs, git, time) ==
    IF tools = <<>> THEN st
    ELSE LET r == add_tool(st.cfg, Head(tools), st.dirs, fs, git, time)
         IN add_each([cfg |-> r.cfg,
                      saved |-> IF r.save THEN r.cfg ELSE st.saved,
                      dirs |-> r.dirs,
                      rets |-> Append(st.rets, r.ret)],
                     Tail(tools), fs, git, time)

----------------------------------------------------------------------------
(* commands/install, commands/update *)

\* the tools that -n <name>, -u <url> or --all select
select_tools(c, sel) ==
    IF TermSet(sel.name)
    THEN find_tool(c, PyNone, PyNone, Some(Str(Val(sel.name))), PyNone, PyNone, FALSE)
    ELSE IF TermSet(sel.url)
    THEN find_tool(c, sel.url, PyNone, PyNone, PyNone, PyNone, FALSE)
    ELSE IF sel.all THEN get_tools(c, TRUE)
    ELSE <<>>

\* Config.update_tool raises ValueError when list.remove does not find the
\* record of the tool it rebuilt
update_tool_raises(c, tool) ==
    LET ts == get_tools(c, FALSE)
    IN \E i \in 1..Len(ts) : ts[i].name = tool.name /\ NoRecord(c, ts[i])

\* the answers to the prompt of install, line 114, and what git does next;
\* "abort" is the user interrupting the prompt, click.Abort ending the command
Resolutions ==
    {[choice |-> "1", git |-> "ok"], [choice |-> "abort", git |-> "ok"]}
        \cup {[choice |-> "2", git |-> g] : g \in CloneOutcomes}
        \cup {[choice |-> "3", git |-> g] : g \in PullOutcomes}

\* update-in-place that sets install_date whatever it was
touched_always(tool, time) ==
    [tool EXCEPT !.install_date = Some(time), !.last_update_date = Some(time)]

\* install_repository, line 136-139: the timestamps after update-in-place
touched(tool, time) ==
    [tool EXCEPT !.install_date = IF IsNone(@) THEN Some(time) ELSE @,
                 !.last_update_date = Some(time)]

\* install_repository, line 104-105, 127-128, 140: cfg.update_tool(tool)
stored(st, tool, ds, fs, result) ==
    IF update_tool_raises(st.cfg, tool)
    THEN [st EXCEPT !.dirs = ds, !.files = fs, !.raised = TRUE,
                    !.results = Append(@, result)]
    ELSE [st EXCEPT !.cfg = update_tool(@, tool), !.dirs = ds, !.files = fs,
                    !.results = Append(@, result)]

\* install_repository, line 88-150: the body of the loop for one tool; git is
\* what the first clone does, res the answer to the prompt and what follows
install_tool(st, tool, git, res, time) ==
    LET r == clone(tool, git, st.dirs, time)
        result(choice, second) ==
            [name |-> tool.name, clone |-> r.ret, choice |-> choice,
             second |-> second]
    IN IF ~is_git_repo(tool) THEN st
       ELSE IF r.ret = 0
       THEN stored(st, update_timestamps(r.tool, time), r.dirs, st.files,
                   result("0", -1))
       ELSE IF r.ret = 2
       THEN IF res.choice = "2"
            THEN LET d == delete_from_fs(st.dirs, st.files, tool.directory)
                     r2 == clone(tool, res.git, d.dirs, time)
                 IN stored(st, update_timestamps(r2.tool, time), r2.dirs, d.files,
                           result("2", r2.ret))
            ELSE IF res.choice = "3"
            THEN LET r3 == update(tool, res.git, st.dirs, time)
                 IN stored(st, touched(r3.tool, time), r3.dirs, st.files,
                           result("3", r3.ret))
            ELSE IF res.choice = "abort"
            THEN [st EXCEPT !.aborted = TRUE,
                            !.results = Append(@, result("abort", -1))]
            ELSE [st EXCEPT !.results = Append(@, result("1", -1))]
       ELSE [st EXCEPT !.results = Append(@, result("0", -1))]

\* install_repository, line 88: the loop; it ends when update_tool raises or
\* the prompt is aborted
RECURSIVE install_loop(_, _, _, _, _)
install_loop(st, tools, git, res, time) ==
    IF tools = <<>> \/ st.raised \/ st.aborted THEN st
    ELSE install_loop(install_tool(st, Head(tools), git, res, time),
                      Tail(tools), git, res, time)

\* update, line 56-75: the status of each selected tool, -1 when the tool is
\* skipped because it is not installed
update_results(tools, git, ds, fs, time) ==
    [i \in 1..Len(tools) |->
        [name |-> tools[i].name,
         res |-> IF is_installed(tools[i], ds, fs)
                 THEN update(tools[i], git, ds, time).ret
                 ELSE -1]]

----------------------------------------------------------------------------
(* utilities/commands: sanitize_indexes; commands/delete *)

Digits == <<"0", "1", "2", "3", "4", "5", "6", "7", "8", "9">>

\* str.isdigit
IsDigit(s) == s # <<>> /\ \A i \in 1..Len(s) : \E d \in 1..10 : Digits[d] = s[i]

\* int(s) of a string of digits
RECURSIVE ToInt(_)
ToInt(s) ==
    IF s = <<>> THEN 0
    ELSE ToInt(SubSeq(s, 1, Len(s) - 1)) * 10
         + (CHOOSE d \in 0..9 : Digits[d + 1] = s[Len(s)])

\* sanitize_indexes: the set res; n is len(indexes)
sanitize_indexes(n, user_input) ==
    LET pieces == Split(user_input, ",")
        entry(i) == Strip(pieces[i])
    IN {ToInt(entry(i)) - 1 :
          i \in {j \in 1..Len(pieces) : IsDigit(entry(j)) /\ ToInt(entry(j)) - 1 < n}}

\* list(res): a set is listed in an order that the caller does not choose
Orders(S) == {l \in [1..Cardinality(S) -> S] : \A x \in S : \E i \in DOMAIN l : l[i] = x}

\* l[i] for a Python index, negative indexes count from the end
PyIndex(l, i) == IF i < 0 THEN l[Len(l) + i + 1] ELSE l[i + 1]

\* delete, line 80-87: the loop over the tools to delete; it ends when
\* list.remove raises ValueError
RECURSIVE delete_loop(_, _, _)
delete_loop(st, tools, fs_too) ==
    IF tools = <<>> \/ st.raised THEN st
    ELSE LET tool == Head(tools)
             d == IF is_installed(tool, st.dirs, st.files) /\ fs_too
                  THEN delete_from_fs(st.dirs, st.files, tool.directory)
                  ELSE [dirs |-> st.dirs, files |-> st.files]
         IN IF NoRecord(st.cfg, tool)
            THEN [st EXCEPT !.raised = TRUE]
            ELSE delete_loop([cfg |-> remove_tool(st.cfg, tool), dirs |-> d.dirs,
                              files |-> d.files, raised |-> FALSE],
                             Tail(tools), fs_too)

\* delete_from_fs for each tool of a list
RECURSIVE delete_each(_, _, _)
delete_each(ds, fs, tools) ==
    IF tools = <<>> THEN [dirs |-> ds, files |-> fs]
    ELSE LET d == delete_from_fs(ds, fs, Head(tools).directory)
         IN delete_each(d.dirs, d.files, Tail(tools))

\* _delete_all, line 115-148, after the registry has been emptied and saved:
\* the file system and the exit status
delete_all_fs(deleted_tools, ans, ds, fs) ==
    LET installed == SelectSeq(deleted_tools, LAMBDA t : is_installed(t, ds, fs))
        idx == sanitize_indexes(Len(deleted_tools), ans.indexes)
        chosen == SelectSeq(deleted_tools,
                            LAMBDA t : \E i \in idx : PyIndex(deleted_tools, i) = t)
        quit == \/ ans.indexes = <<>>
                \/ Lower(ans.indexes) \in {<<"n", "o">>, <<"n">>, <<"q", "u", "i", "t">>,
                                           <<"q">>, <<"n", "o", "n", "e">>}
    IN IF ans.fs_all
       THEN delete_each(ds, fs, installed) @@ [exit |-> 0]
       ELSE IF quit \/ idx = {}
       THEN [dirs |-> ds, files |-> fs, exit |-> 1]
       ELSE delete_each(ds, fs, chosen) @@ [exit |-> 0]

----------------------------------------------------------------------------
(* commands/modify *)

\* modify, line 112-117: the tags that are not there yet are appended
RECURSIVE tags_added(_, _)
tags_added(tool_tags, tmp_tags) ==
    IF tmp_tags = <<>> THEN tool_tags
    ELSE tags_added(IF InSeq(Head(tmp_tags), tool_tags) THEN tool_tags
                    ELSE Append(tool_tags, Head(tmp_tags)),
                    Tail(tmp_tags))

\* modify, line 133-138: list.remove of each tag that is there
RECURSIVE tags_removed(_, _)
tags_removed(tool_tags, tmp_tags) ==
    IF tmp_tags = <<>> THEN tool_tags
    ELSE tags_removed(RemoveFirst(tool_tags, Head(tmp_tags)), Tail(tmp_tags))

\* _save_changes: cfg.update_tool(tool), cfg.save()
save_changes(c, tool, ds, fs) ==
    IF update_tool_raises(c, tool)
    THEN [cfg |-> c, save |-> FALSE, dirs |-> ds, files |-> fs, exit |-> 1]
    ELSE [cfg |-> update_tool(c, tool), save |-> TRUE, dirs |-> ds, files |-> fs,
          exit |-> 0]

\* modify with one of -d, -tA, -tR, -tM: the Config object, whether it was
\* saved, the file system and the exit status
modify(c, name, opt, ds, fs) ==
    LET found == get_tool(c, name)
        tool == Val(found)
        failed == [cfg |-> c, save |-> FALSE, dirs |-> ds, files |-> fs, exit |-> 1]
        dst_dir == opt.new_dir
                   \o (IF EndsWith(opt.new_dir, <<"/">>) THEN <<>> ELSE <<"/">>)
                   \o tool.name
        m == move_file(ds, fs, tool.directory, dst_dir)
    IN IF IsNone(found) THEN failed
       ELSE IF opt.kind = "new_dir"
       THEN IF ~is_writable(ds, fs, opt.new_dir) THEN failed
            ELSE IF ~Exists(ds, fs, tool.directory) THEN failed
            ELSE IF IsDir(ds, tool.directory)
                    /\ RStrip(tool.directory, "/") = RStrip(dst_dir, "/")
            THEN failed
            ELSE save_changes(c, set_directory(tool, opt.new_dir), m.dirs, m.files)
       ELSE IF opt.kind = "tag_add"
       THEN save_changes(c, [tool EXCEPT !.tags =
                                tags_added(@, sanitize_tags(Some(Str(opt.tags))))],
                         ds, fs)
       ELSE IF opt.kind = "tag_rm"
       THEN save_changes(c, [tool EXCEPT !.tags =
                                tags_removed(@, sanitize_tags(Some(Str(opt.tags))))],
                         ds, fs)
       ELSE IF ~InSeq(opt.old, tool.tags) \/ InSeq(opt.new, tool.tags) THEN failed
       ELSE save_changes(c, [tool EXCEPT !.tags =
                                Append(RemoveFirst(@, opt.old), opt.new)],
                         ds, fs)

----------------------------------------------------------------------------
(* commands/scan *)

\* _repo_seeker: the directories at or below root_dir that hold a .git
found_repos(ds, root_dir) ==
    {d \in Below(ds, root_dir) : (d \o SlashDotGit) \in ds}

\* git_repo.remote("origin").url of a repository of the model: every url of
\* the model is git/<name>.git
OriginUrl(repo_dir) == <<"g", "i", "t", "/">> \o LastOf(Split(repo_dir, "/")) \o DotGit

\* scan, line 127-148: the loop over the chosen indexes
RECURSIVE scan_loop(_, _, _, _, _)
scan_loop(c, repos_list, chosen_indexes, has_origin, time) ==
    IF chosen_indexes = <<>> THEN c
    ELSE LET repo_dir == PyIndex(repos_list, Head(chosen_indexes))
             repo_name == LastOf(Split(repo_dir, "/"))
             repository == Repository(OriginUrl(repo_dir), repo_dir, Some(repo_name),
                                      <<>>, Some(time), Some(time), Some(time))
             managed == \E i \in 1..Len(c.tools) :
                           get_tools(c, FALSE)[i].name = repository.name
         IN scan_loop(IF has_origin /\ ~managed THEN add_tool_cfg(c, repository) ELSE c,
                      repos_list, Tail(chosen_indexes), has_origin, time)

----------------------------------------------------------------------------
(* commands/import_conf: the text of conf.tman and its decoding *)

\* s.find(sub): the index (from 0) of the first occurrence, or -1
Find(s, sub) ==
    IF Contains(s, sub)
    THEN CHOOSE i \in 0..(Len(s) - Len(sub)) :
            /\ SubSeq(s, i + 1, i + Len(sub)) = sub
            /\ \A j \in 0..(i - 1) : SubSeq(s, j + 1, j + Len(sub)) # sub
    ELSE -1

\* s[a:b]
SliceIndex(i, n) == IF i < 0 THEN (IF n + i < 0 THEN 0 ELSE n + i)
                    ELSE IF i > n THEN n ELSE i
SliceFrom(s, x, y) == IF x < y THEN SubSeq(s, x + 1, y) ELSE <<>>
PySlice(s, a, b) == SliceFrom(s, SliceIndex(a, Len(s)), SliceIndex(b, Len(s)))

\* s.replace(old, "")
RECURSIVE Removed(_, _)
RemovedAt(s, old, i) ==
    SubSeq(s, 1, i) \o Removed(SubSeq(s, i + Len(old) + 1, Len(s)), old)
Removed(s, old) ==
    IF old = <<>> \/ ~Contains(s, old) THEN s ELSE RemovedAt(s, old, Find(s, old))

\* s.split(c, 1)
SplitAt(s, i) ==
    IF i = -1 THEN <<s>> ELSE <<SubSeq(s, 1, i), SubSeq(s, i + 2, Len(s))>>
SplitOnce(s, c) == SplitAt(s, Find(s, <<c>>))

TagsMarker == <<"t", "a", "g", "s", "-", "[">>

\* remove_tags: the line without its tags part and the tags; raises is
\* the IndexError of line 174 (empty line) or of line 180 (no "-" to split at)
\* line 171-175: the index of the last "]" at or after start, or -1
tags_end(line, start) ==
    LET closers == {i \in (IF start < 0 THEN 0 ELSE start)..(Len(line) - 1) :
                      line[i + 1] = "]"}
    IN IF closers = {} THEN -1
       ELSE CHOOSE i \in closers : \A j \in closers : j <= i

\* line 177: tag_str = line[start:end + 1]
tag_str_of(line, start) == PySlice(line, start, tags_end(line, start) + 1)

\* line 180-182: every token without its first and its last character
tag_tokens(toks) ==
    SelectSeq([i \in 1..Len(toks) |-> PySlice(Strip(toks[i]), 1, -1)],
              LAMBDA t : t # <<>>)

\* line 178-184, parts is tag_str.split("-", 1)
remove_tags_parts(line, tag_str, parts) ==
    [line |-> Removed(line, tag_str),
     tags |-> IF line = <<>> \/ Len(parts) < 2 THEN <<>>
              ELSE tag_tokens(Split(PySlice(parts[2], 1, -1), ",")),
     raises |-> line = <<>> \/ Len(parts) < 2]

remove_tags_str(line, tag_str) ==
    remove_tags_parts(line, tag_str, SplitOnce(tag_str, "-"))

remove_tags(line) == remove_tags_str(line, tag_str_of(line, Find(line, TagsMarker)))

\* _import_conf_file, line 158-159 and 184-197: the key-value pairs of a line
pairs_of(line) ==
    LET props == SelectSeq(Split(line, ","), LAMBDA p : p # <<>>)
    IN [i \in 1..Len(props) |-> SplitOnce(props[i], "-")]

\* d[key] of the dictionary built from the pairs: the last value given to
\* the key, or None where Python raises KeyError
DictGet(pairs, key) ==
    LET at == {i \in 1..Len(pairs) : pairs[i][1] = key}
    IN IF at = {} THEN PyNone
       ELSE Some(pairs[CHOOSE i \in at : \A j \in at : j <= i][2])

KeyName == <<"n", "a", "m", "e">>
KeyUrl == <<"u", "r", "l">>
KeyType == <<"t", "y", "p", "e">>
KeyDirectory == <<"d", "i", "r", "e", "c", "t", "o", "r", "y">>
KeyDefaultDir ==
    <<"d", "e", "f", "a", "u", "l", "t", "_", "i", "n", "s", "t", "a", "l",
      "l", "a", "t", "i", "o", "n", "_", "d", "i", "r", "e", "c", "t", "o",
      "r", "y">>
KeyAutomaticInstall ==
    <<"a", "u", "t", "o", "m", "a", "t", "i", "c", "_", "i", "n", "s", "t",
      "a", "l", "l">>

\* _import_conf_file, line 167-213: what a tool line decodes to; raises is an
\* IndexError or a KeyError on the way
decode_pairs(r, pairs) ==
    LET bad == \/ r.raises
               \/ \E i \in 1..Len(pairs) : Len(pairs[i]) < 2
    IN [raises |-> \/ bad
                   \/ IsNone(DictGet(pairs, KeyUrl))
                   \/ IsNone(DictGet(pairs, KeyDirectory))
                   \/ /\ DictGet(pairs, KeyUrl) # Some(<<"-">>)
                      /\ IsNone(DictGet(pairs, KeyName)),
        tags |-> r.tags,
        name |-> IF bad THEN PyNone ELSE DictGet(pairs, KeyName),
        url |-> IF bad THEN PyNone ELSE DictGet(pairs, KeyUrl),
        type |-> IF bad THEN PyNone ELSE DictGet(pairs, KeyType),
        directory |-> IF bad THEN PyNone ELSE DictGet(pairs, KeyDirectory)]

decode_tagless(r) == decode_pairs(r, pairs_of(r.line))

decode_line(line) == decode_tagless(remove_tags(line))

\* _import_conf_file, line 204-213: the tool of a decoded line
decoded_tool(d, time) ==
    IF Val(d.url) = <<"-">>
    THEN LocalFile(Val(d.directory), PyNone, d.tags, Some(time), PyNone, PyNone)
    ELSE Repository(Val(d.url), Val(d.directory), d.name, d.tags, Some(time),
                    PyNone, PyNone)

\* repr(s) of a str: double quotes when s holds a single quote and no double
\* quote, single quotes otherwise, with backslashes and the quote escaped
RECURSIVE Escaped(_)
Escaped(s) ==
    IF s = <<>> THEN <<>>
    ELSE (IF Head(s) \in {"\\", "'"} THEN <<"\\", Head(s)>> ELSE <<Head(s)>>)
            \o Escaped(Tail(s))

PyReprStr(s) ==
    IF Contains(s, <<"'">>) /\ ~Contains(s, <<"\"">>)
    THEN <<"\"">> \o s \o <<"\"">>
    ELSE <<"'">> \o Escaped(s) \o <<"'">>

\* the items of repr(l) of a list of str, joined with ", "
RECURSIVE PyReprItems(_)
PyReprItems(l) ==
    IF l = <<>> THEN <<>>
    ELSE IF Len(l) = 1 THEN PyReprStr(l[1])
    ELSE PyReprStr(Head(l)) \o <<",", " ">> \o PyReprItems(Tail(l))

PyReprList(l) == <<"[">> \o PyReprItems(l) \o <<"]">>

KeyTags == <<"t", "a", "g", "s">>

\* export_conf, line 112-119: the line of a tool, every key of Tool.__dict__
\* but the dates as key-value, and the last comma removed
export_tool(r) ==
    PySlice(KeyName \o <<"-">> \o r.name \o <<",">>
              \o KeyUrl \o <<"-">> \o r.url \o <<",">>
              \o KeyTags \o <<"-">> \o PyReprList(r.tags) \o <<",">>
              \o KeyType \o <<"-">> \o r.type \o <<",">>
              \o KeyDirectory \o <<"-">> \o r.directory \o <<",">>,
            0, -1)

\* export_conf, line 105-108 and 123: the first line, the settings
export_settings(c) ==
    PySlice(KeyDefaultDir \o <<"-">> \o c.default_installation_directory \o <<",">>
              \o KeyAutomaticInstall \o <<"-">>
              \o (IF c.automatic_install THEN <<"T", "r", "u", "e">>
                   ELSE <<"F", "a", "l", "s", "e">>) \o <<",">>,
            0, -1)

\* export_conf, line 103-126: the lines of conf.tman
export_conf_lines(c) ==
    <<export_settings(c)>> \o [i \in 1..Len(c.tools) |-> export_tool(c.tools[i])]

\* _import_conf_file, line 156-165: the settings of the first line, pairs is
\* pairs_of that line
decode_settings(c, pairs) ==
    LET dir == DictGet(pairs, KeyDefaultDir)
        ai == DictGet(pairs, KeyAutomaticInstall)
    IN [c EXCEPT !.default_installation_directory = IF IsNone(dir) THEN @ ELSE Val(dir),
                 !.automatic_install =
                     IF IsNone(ai) THEN @
                     ELSE IF Val(ai) = <<"T", "r", "u", "e">> THEN TRUE
                     ELSE IF Val(ai) = <<"F", "a", "l", "s", "e">> THEN FALSE
                     ELSE Val(ai) # <<>>]

\* import_conf, line 53-61 and 112-113: the filters given to _import_conf_file
import_types_of(types) ==
    IF IsNone(types) \/ Val(types) = <<>> THEN PyNone
    ELSE LET l == Split(Val(types), ",")
         IN Some(SelectSeq([i \in 1..Len(l) |-> Strip(l[i])],
                           LAMBDA t : t \in {TypeGit, TypeLocal}))

import_tags_of(tags) ==
    IF IsNone(tags) \/ Val(tags) = <<>> THEN PyNone
    ELSE Some(sanitize_tags(Some(Str(Val(tags)))))

\* _import_conf_file, line 172-201: the line passes the filters
passes_filters(d, import_types, import_tags) ==
    /\ (~IsNone(import_tags) /\ Val(import_tags) # <<>>)
          => \E i \in 1..Len(d.tags) : InSeq(d.tags[i], Val(import_tags))
    /\ (~IsNone(import_types) /\ ~IsNone(d.type))
          => InSeq(Val(d.type), Val(import_types))

\* _import_conf_file, line 167-227: the tool lines, one after the other;
\* all_tools is the list of tools taken before the first line was read
\* line 215-227: the tool of a line is updated or added, and the registry saved
import_tool(st, all_tools, tool, overwrite) ==
    IF \E i \in 1..Len(all_tools) : all_tools[i].name = tool.name
    THEN IF ~overwrite THEN [st EXCEPT !.saved = st.cfg]
         ELSE IF update_tool_raises(st.cfg, tool) THEN [st EXCEPT !.raised = TRUE]
         ELSE [cfg |-> update_tool(st.cfg, tool),
               saved |-> update_tool(st.cfg, tool), raised |-> FALSE]
    ELSE [cfg |-> add_tool_cfg(st.cfg, tool),
          saved |-> add_tool_cfg(st.cfg, tool), raised |-> FALSE]

\* line 167-227 for one decoded line
import_line(st, all_tools, d, import_types, import_tags, overwrite, time) ==
    IF d.raises THEN [st EXCEPT !.raised = TRUE]
    ELSE IF ~passes_filters(d, import_types, import_tags) THEN st
    ELSE import_tool(st, all_tools, decoded_tool(d, time), overwrite)

\* decoded is the tool lines of conf.tman, each as decode_line gives it
RECURSIVE import_lines(_, _, _, _, _, _, _)
import_lines(st, all_tools, decoded, import_types, import_tags, overwrite, time) ==
    IF decoded = <<>> \/ st.raised THEN st
    ELSE import_lines(import_line(st, all_tools, Head(decoded),
                                  import_types, import_tags, overwrite, time),
                      all_tools, Tail(decoded), import_types, import_tags,
                      overwrite, time)

\* Config.auto_install: the loop over the repositories as they were at its
\* start; st holds the Config object, the saved registry and the directories
RECURSIVE auto_install_loop(_, _, _, _)
auto_install_loop(st, repos, git, time) ==
    IF repos = <<>> \/ st.raised THEN st
    ELSE LET r == clone(Head(repos), git, st.dirs, time)
             repo == update_timestamps(r.tool, time)
             next ==
                 IF r.ret # 0 THEN st
                 ELSE IF update_tool_raises(st.cfg, repo)
                 THEN [st EXCEPT !.dirs = r.dirs, !.raised = TRUE]
                 ELSE [cfg |-> update_tool(st.cfg, repo),
                       saved |-> update_tool(st.cfg, repo),
                       dirs |-> r.dirs, raised |-> FALSE]
         IN auto_install_loop(next, Tail(repos), git, time)

auto_install(st, git, time) ==
    IF st.cfg.automatic_install
    THEN auto_install_loop(st, get_tools(st.cfg, TRUE), git, time)
    ELSE st

----------------------------------------------------------------------------
(* Main specification: tman commands run one after the other. Each command *)
(* loads the persisted registry, works on its own Config object and reads  *)
(* the clock once; the clock advances between two commands.                *)

Init ==
    /\ \E ai \in BOOLEAN :
          cfg = [default_installation_directory |-> DirT,
                 automatic_install |-> ai, tools |-> <<>>]
    /\ saved = cfg
    /\ dirs = {DirT, DirW, DirWA, DirWAGit}
    /\ files = {PathWB}
    /\ now = 1
    /\ last = [op |-> "init"]

\* tman add <tool> [-t tags]
AddInputs ==
    { [tool |-> UrlA, tags |-> Some(Str(<<"x">>))],
      [tool |-> UrlAB, tags |-> PyNone],
      [tool |-> UrlT, tags |-> PyNone],
      [tool |-> PathWB, tags |-> Some(Str(<<"y">>))],
      [tool |-> DirW, tags |-> PyNone],
      [tool |-> DirT, tags |-> PyNone] }

\* the lines of a file given to tman add -i
AddLines ==
    { [url |-> UrlA, tags |-> <<<<"x">>>>],
      [url |-> PathWB, tags |-> <<<<"y">>>>] }

\* add without -i and without -d, of one of the inputs, with every outcome
\* git can have
AddOf(inputs) ==
    /\ now <= MaxTime
    /\ now' = now + 1
    /\ \E inp \in inputs :
        /\ LET c == saved
               default_dir == c.default_installation_directory
               tags == sanitize_tags(inp.tags)
               directory == trailing_slash(dirs, AbsPath(default_dir))
               tool == IF is_git_url(inp.tool)
                       THEN Repository(inp.tool, directory, PyNone, tags,
                                       Some(now), PyNone, PyNone)
                       ELSE LocalFile(AbsPath(inp.tool), PyNone, tags,
                                      Some(now), PyNone, PyNone)
               head == [op |-> "add", time |-> now, pre |-> c, pre_dirs |-> dirs,
                        pre_files |-> files, input |-> inp.tool]
           IN IF \/ ~is_writable(dirs, files, directory)
                 \/ ~is_git_url(inp.tool) /\ ~is_writable(dirs, files, inp.tool)
              THEN /\ cfg' = c
                   /\ UNCHANGED <<saved, dirs, files>>
                   /\ last' = head @@ [tool |-> PyNone, rets |-> <<>>, exit |-> 1]
              ELSE \E r \in {add_tool(c, tool, dirs, files, git, now) :
                                git \in CloneOutcomes} :
                   /\ cfg' = r.cfg
                   /\ saved' = IF r.save THEN r.cfg ELSE saved
                   /\ dirs' = r.dirs
                   /\ UNCHANGED files
                   /\ last' = head @@ [tool |-> Some(tool), rets |-> <<r.ret>>,
                                       exit |-> IF r.ret = 0 THEN 0 ELSE 1]

Add == AddOf(AddInputs)

\* add -i <file>, with every answer to "overwrite?" and every outcome git
\* can have
AddFile ==
    /\ now <= MaxTime
    /\ now' = now + 1
    /\ \E lines \in SeqsUpTo(AddLines, MaxLines) :
        /\ lines # <<>>
        /\ \E p \in {parse_tools_from_csv(lines, saved.default_installation_directory,
                                          dirs, files, overwrite, now) :
                      overwrite \in BOOLEAN} :
           \E r \in {add_each([cfg |-> saved, saved |-> saved, dirs |-> p.dirs,
                               rets |-> <<>>],
                              p.tools, p.files, git, now) : git \in CloneOutcomes} :
              /\ cfg' = r.cfg
              /\ saved' = r.saved
              /\ dirs' = r.dirs
              /\ files' = p.files
              /\ last' = [op |-> "add_file", time |-> now, pre |-> saved,
                          pre_dirs |-> dirs, pre_files |-> files,
                          parsed_dirs |-> p.dirs, parsed_files |-> p.files,
                          tools |-> p.tools, rets |-> r.rets, exit |-> 0]

\* what -n, -u and --all of install and update are given
Selectors ==
    { [name |-> Some(<<"a">>), url |-> PyNone, all |-> FALSE],
      [name |-> Some(<<"a", "b">>), url |-> PyNone, all |-> FALSE],
      [name |-> PyNone, url |-> Some(UrlA), all |-> FALSE],
      [name |-> PyNone, url |-> PyNone, all |-> TRUE] }

\* tman install -n <name> | -u <url> | --all; an answer "3" to the prompt is
\* also what --assume-yes gives
Install ==
    /\ now <= MaxTime
    /\ now' = now + 1
    /\ \E tools \in {select_tools(saved, sel) : sel \in Selectors} :
              LET head == [op |-> "install", time |-> now, pre |-> saved,
                           pre_dirs |-> dirs, pre_files |-> files]
              IN IF tools = <<>>
                 THEN /\ cfg' = saved
                      /\ UNCHANGED <<saved, dirs, files>>
                      /\ last' = head @@ [results |-> <<>>, ret |-> 1,
                                          raised |-> FALSE, aborted |-> FALSE,
                                          exit |-> 0]
                 ELSE \E st \in {install_loop([cfg |-> saved, dirs |-> dirs,
                                                files |-> files, results |-> <<>>,
                                                raised |-> FALSE,
                                                aborted |-> FALSE],
                                               tools, git, res, now) :
                                  git \in CloneOutcomes, res \in Resolutions} :
                      /\ cfg' = st.cfg
                      /\ saved' = IF st.raised \/ st.aborted THEN saved
                                  ELSE st.cfg
                      /\ dirs' = st.dirs
                      /\ files' = st.files
                      /\ last' = head @@ [results |-> st.results, ret |-> 0,
                                          raised |-> st.raised,
                                          aborted |-> st.aborted,
                                          exit |-> IF st.raised \/ st.aborted
                                                   THEN 1 ELSE 0]

\* tman update -n <name> | -u <url> | --all: the loop changes no Config
\* field, and cfg.save() writes the Config as it was loaded
Update ==
    /\ now <= MaxTime
    /\ now' = now + 1
    /\ \E tools \in {select_tools(saved, sel) : sel \in Selectors} :
       \E results \in {update_results(tools, git, dirs, files, now) :
                        git \in PullOutcomes} :
              /\ cfg' = saved
              /\ saved' = saved
              /\ UNCHANGED <<dirs, files>>
              /\ last' = [op |-> "update", time |-> now, pre |-> saved,
                          pre_dirs |-> dirs, pre_files |-> files,
                          results |-> results, exit |-> 0]

\* what delete -n is given, and the answers to the prompts of delete --all
DeleteNames == {<<"a">>, <<"a", "b">>, <<"B">>}
DeleteAllAnswers ==
    { [confirm |-> FALSE, fs_all |-> FALSE, indexes |-> <<>>],
      [confirm |-> TRUE, fs_all |-> TRUE, indexes |-> <<>>],
      [confirm |-> TRUE, fs_all |-> FALSE, indexes |-> <<>>],
      [confirm |-> TRUE, fs_all |-> FALSE, indexes |-> <<"1">>],
      [confirm |-> TRUE, fs_all |-> FALSE, indexes |-> <<"0">>] }

\* tman delete -n <name>; fs_too is the answer to "from file system too?"
DeleteByName ==
    /\ now <= MaxTime
    /\ now' = now + 1
    /\ \E name \in DeleteNames :
        /\ \E tools \in {find_tool(saved, PyNone, PyNone, Some(Str(name)), PyNone,
                                   PyNone, FALSE)} :
           \E fs_too \in IF tools = <<>> THEN {FALSE} ELSE BOOLEAN :
              LET head == [op |-> "delete", time |-> now, pre |-> saved,
                           pre_dirs |-> dirs, pre_files |-> files, tools |-> tools]
              IN IF tools = <<>>
                 THEN /\ cfg' = saved
                      /\ UNCHANGED <<saved, dirs, files>>
                      /\ last' = head @@ [raised |-> FALSE, exit |-> 1]
                 ELSE \E st \in {delete_loop([cfg |-> saved, dirs |-> dirs,
                                               files |-> files, raised |-> FALSE],
                                              tools, fs_too)} :
                      /\ cfg' = st.cfg
                      /\ saved' = IF st.raised THEN saved ELSE st.cfg
                      /\ dirs' = st.dirs
                      /\ files' = st.files
                      /\ last' = head @@ [raised |-> st.raised,
                                          exit |-> IF st.raised THEN 1 ELSE 0]

\* tman delete --all
DeleteAll ==
    /\ now <= MaxTime
    /\ now' = now + 1
    /\ \E ans \in IF saved.tools = <<>> THEN {[confirm |-> FALSE, fs_all |-> FALSE,
                                                indexes |-> <<>>]}
                  ELSE DeleteAllAnswers :
        /\ \E tools \in {get_tools(saved, FALSE)} :
              LET head == [op |-> "delete_all", time |-> now, pre |-> saved,
                           pre_dirs |-> dirs, pre_files |-> files, tools |-> tools]
              IN IF tools = <<>> \/ ~ans.confirm
                 THEN /\ cfg' = saved
                      /\ UNCHANGED <<saved, dirs, files>>
                      /\ last' = head @@ [count |-> 0, exit |-> 1]
                 ELSE \E r \in {remove_all_tools(saved)} :
                      \E d \in {delete_all_fs(tools, ans, dirs, files)} :
                      /\ cfg' = r.cfg
                      /\ saved' = r.cfg
                      /\ dirs' = d.dirs
                      /\ files' = d.files
                      /\ last' = head @@ [count |-> r.count, exit |-> d.exit]

\* what modify is given: the name and one of -d, -tA, -tR, -tM
ModifyNames == {<<"a">>, <<"B">>}
ModifyOptions ==
    { [kind |-> "new_dir", new_dir |-> DirW, tags |-> <<>>, old |-> <<>>, new |-> <<>>],
      [kind |-> "tag_add", new_dir |-> <<>>, tags |-> <<"y">>, old |-> <<>>, new |-> <<>>],
      [kind |-> "tag_rm", new_dir |-> <<>>, tags |-> <<"x">>, old |-> <<>>, new |-> <<>>],
      [kind |-> "tag_mv", new_dir |-> <<>>, tags |-> <<>>, old |-> <<"x">>,
       new |-> <<"z">>] }

\* tman modify <name> -d | -tA | -tR | -tM
Modify ==
    /\ now <= MaxTime
    /\ now' = now + 1
    /\ \E name \in ModifyNames :
       \E opt \in IF IsNone(get_tool(saved, name))
                  THEN {o \in ModifyOptions : o.kind = "new_dir"} ELSE ModifyOptions :
        /\ \E r \in {modify(saved, name, opt, dirs, files)} :
              /\ cfg' = r.cfg
              /\ saved' = IF r.save THEN r.cfg ELSE saved
              /\ dirs' = r.dirs
              /\ files' = r.files
              /\ last' = [op |-> "modify", time |-> now, pre |-> saved,
                          pre_dirs |-> dirs, pre_files |-> files, name |-> name,
                          kind |-> opt.kind, exit |-> r.exit]

\* the user of scan: an interrupt while the search runs, or the answers to
\* "add all of them?" and to the prompt for the numbers
ScanAnswers ==
    { [interrupt |-> TRUE, add_all |-> FALSE, indexes |-> <<"q">>],
      [interrupt |-> FALSE, add_all |-> TRUE, indexes |-> <<"q">>],
      [interrupt |-> FALSE, add_all |-> FALSE, indexes |-> <<"q">>],
      [interrupt |-> FALSE, add_all |-> FALSE, indexes |-> <<"1">>],
      [interrupt |-> FALSE, add_all |-> FALSE, indexes |-> <<"0">>] }

\* tman scan <root-dir>; os.walk lists the directories in an order of its
\* own. The exit status is 2 for a root that is no directory, 1 after an
\* interrupt or when no number is valid, else 0
Scan ==
    /\ now <= MaxTime
    /\ now' = now + 1
    /\ \E root_dir \in {DirT, DirW}, ans \in ScanAnswers :
       \E repos_list \in Orders(found_repos(dirs, root_dir)) :
       \E chosen \in IF ans.add_all
                     THEN {[i \in 1..Len(repos_list) |-> i - 1]}
                     ELSE Orders(sanitize_indexes(Len(repos_list), ans.indexes)) :
          LET head == [op |-> "scan", time |-> now, pre |-> saved,
                       pre_dirs |-> dirs, pre_files |-> files,
                       repos_list |-> repos_list]
              exit == IF ~IsDir(dirs, root_dir) THEN 2
                      ELSE IF ans.interrupt THEN 1
                      ELSE IF repos_list = <<>> \/ ans.add_all THEN 0
                      ELSE IF ans.indexes = <<"q">> THEN 0
                      ELSE IF chosen = <<>> THEN 1 ELSE 0
              adds == /\ exit = 0
                      /\ repos_list # <<>>
                      /\ ans.add_all \/ ans.indexes # <<"q">>
          IN IF ~adds
             THEN /\ cfg' = saved
                  /\ UNCHANGED <<saved, dirs, files>>
                  /\ last' = head @@ [chosen |-> <<>>, exit |-> exit]
             ELSE \E c \in {scan_loop(saved, repos_list, chosen, has_origin, now) :
                               has_origin \in BOOLEAN} :
                  /\ cfg' = c
                  /\ saved' = c
                  /\ UNCHANGED <<dirs, files>>
                  /\ last' = head @@ [chosen |-> chosen, exit |-> 0]

SettingsLineOn ==
    <<"d", "e", "f", "a", "u", "l", "t", "_", "i", "n", "s", "t", "a", "l",
      "l", "a", "t", "i", "o", "n", "_", "d", "i", "r", "e", "c", "t", "o",
      "r", "y", "-", "/", "t", ",", "a", "u", "t", "o", "m", "a", "t", "i",
      "c", "_", "i", "n", "s", "t", "a", "l", "l", "-", "T", "r", "u", "e">>
SettingsLineOff ==
    <<"d", "e", "f", "a", "u", "l", "t", "_", "i", "n", "s", "t", "a", "l",
      "l", "a", "t", "i", "o", "n", "_", "d", "i", "r", "e", "c", "t", "o",
      "r", "y", "-", "/", "t", ",", "a", "u", "t", "o", "m", "a", "t", "i",
      "c", "_", "i", "n", "s", "t", "a", "l", "l", "-", "F", "a", "l", "s",
      "e">>
LineRepoA ==
    <<"n", "a", "m", "e", "-", "a", ",", "u", "r", "l", "-", "g", "i", "t",
      "/", "a", ".", "g", "i", "t", ",", "t", "a", "g", "s", "-", "[", "'",
      "x", "'", "]", ",", "t", "y", "p", "e", "-", "g", "i", "t", ",", "d",
      "i", "r", "e", "c", "t", "o", "r", "y", "-", "/", "t", "/", "a">>
LineRepoAY ==
    <<"n", "a", "m", "e", "-", "a", ",", "u", "r", "l", "-", "g", "i", "t",
      "/", "a", ".", "g", "i", "t", ",", "t", "a", "g", "s", "-", "[", "'",
      "y", "'", "]", ",", "t", "y", "p", "e", "-", "g", "i", "t", ",", "d",
      "i", "r", "e", "c", "t", "o", "r", "y", "-", "/", "t", "/", "a">>
LineLocalB ==
    <<"n", "a", "m", "e", "-", "B", ",", "u", "r", "l", "-", "-", ",", "t",
      "a", "g", "s", "-", "[", "'", "y", "'", "]", ",", "t", "y", "p", "e",
      "-", "l", "o", "c", "a", "l", ",", "d", "i", "r", "e", "c", "t", "o",
      "r", "y", "-", "/", "w", "/", "B">>

\* the conf.tman of an archive without tools: a settings line, then tool lines
SettingsLines == {SettingsLineOn, SettingsLineOff}
ImportLines == {LineRepoA, LineRepoAY, LineLocalB}

\* every line of the pool is decoded once
SettingsPairs == [l \in SettingsLines |-> pairs_of(l)]
DecodedLines == [l \in ImportLines |-> decode_line(l)]

\* tman import-conf <archive>, without --types and --tags, with every answer
\* to "overwrite its configuration?" and every outcome git can have
ImportConf ==
    /\ now <= MaxTime
    /\ now' = now + 1
    /\ \E settings \in SettingsLines, lines \in SeqsUpTo(ImportLines, MaxLines) :
        /\ \E st \in {import_lines([cfg |-> decode_settings(saved,
                                                               SettingsPairs[settings]),
                                    saved |-> saved, raised |-> FALSE],
                                   get_tools(saved, FALSE),
                                   [i \in DOMAIN lines |-> DecodedLines[lines[i]]],
                                   import_types_of(PyNone), import_tags_of(PyNone),
                                   overwrite, now) : overwrite \in BOOLEAN} :
           \E fin \in {IF st.raised THEN st @@ [dirs |-> dirs]
                       ELSE auto_install([cfg |-> st.cfg, saved |-> st.cfg,
                                          dirs |-> dirs, raised |-> FALSE],
                                         git, now) : git \in CloneOutcomes} :
              /\ cfg' = fin.cfg
              /\ saved' = fin.saved
              /\ dirs' = fin.dirs
              /\ UNCHANGED files
              /\ last' = [op |-> "import_conf", time |-> now, pre |-> saved,
                          pre_dirs |-> dirs, pre_files |-> files, lines |-> lines,
                          raised |-> fin.raised,
                          exit |-> IF fin.raised THEN 1 ELSE 0]

Next ==
    \/ Add \/ AddFile \/ Install \/ Update
    \/ DeleteByName \/ DeleteAll \/ Modify \/ Scan \/ ImportConf

Spec == Init /\ [][Next]_vars

----------------------------------------------------------------------------
(* Second specification: the query helpers applied to registries and       *)
(* candidates built by the tool constructors                               *)

QueryRecords ==
    { ToDict(Repository(UrlA, DirTSlash, PyNone, <<<<"x">>>>, Some(0), PyNone, PyNone)),
      ToDict(Repository(UrlAB, DirTSlash, PyNone, <<<<"X">>, <<"y">>>>, Some(0), Some(1), Some(1))),
      ToDict(Repository(UrlADashB, DirTSlash, PyNone, <<>>, Some(1), PyNone, PyNone)),
      ToDict(LocalFile(PathWB, PyNone, <<<<"y">>>>, Some(0), PyNone, PyNone)) }

QueryRegistries == {l \in SeqsUpTo(QueryRecords, MaxTools) : UniqueNames(l)}

QueryDirs == { {DirT, DirW}, {DirT, DirW, DirTA}, {DirT, DirW, DirTA, DirTAB} }

QueryUrls == {PyNone, Some(UrlA), Some(UrlAGit), Some(UrlADashB)}
QueryTags == {PyNone, Some(Str(<<"x">>)), Some(Str(<<"X", ",", " ", "y">>)),
              Some(Str(<<" ", ",">>))}
QueryNames == {PyNone, Some(Str(<<"a">>)), Some(Str(<<"a", "b">>)),
               Some(Tuple(<<<<"a">>>>)), Some(Tuple(<<<<"A", "B">>, <<"b">>>>))}
QueryTypes == {PyNone, Some(Tuple(<<TypeGit>>)), Some(Str(TypesGitLocal))}
QueryDates == {PyNone, Some(0), Some(1), Some(2)}

Candidates ==
    { Repository(UrlC, DirTSlash, PyNone, <<>>, Some(2), PyNone, PyNone),
      Repository(UrlA, DirTSlash, PyNone, <<>>, Some(2), PyNone, PyNone),
      Repository(UrlAB, DirTSlash, PyNone, <<>>, Some(2), PyNone, PyNone),
      LocalFile(DirTAC, PyNone, <<>>, Some(2), PyNone, PyNone) }

InitQuery ==
    /\ \E l \in QueryRegistries :
          cfg = [default_installation_directory |-> DirT,
                 automatic_install |-> FALSE, tools |-> l]
    /\ saved = cfg
    /\ dirs \in QueryDirs
    /\ files = {PathWB}
    /\ now = MaxTime
    /\ last = [op |-> "init"]

\* a caller runs find_tool on the loaded registry
CallFindTool ==
    \E url \in QueryUrls, tags \in QueryTags, name \in QueryNames,
       type \in QueryTypes, date \in QueryDates, f \in BOOLEAN :
        /\ last.op = "init"
        /\ last' = [op |-> "find_tool", url |-> url, tags |-> tags, name |-> name,
                    type |-> type, last_update_date |-> date, f |-> f,
                    found |-> find_tool(cfg, url, tags, name, type, date, f)]
        /\ UNCHANGED <<cfg, saved, dirs, files, now>>

\* a caller runs Config.already_managed on a freshly constructed tool
CallAlreadyManaged ==
    \E tool \in Candidates :
        /\ last.op = "init"
        /\ last' = [op |-> "already_managed", tool |-> tool,
                    result |-> already_managed(cfg, tool, dirs)]
        /\ UNCHANGED <<cfg, saved, dirs, files, now>>

NextQuery == CallFindTool \/ CallAlreadyManaged

SpecQuery == InitQuery /\ [][NextQuery]_vars

----------------------------------------------------------------------------
(* Third specification: the conf.tman codec and Config.update_tool applied *)
(* to registries built by the tool constructors                            *)

\* a directory whose name holds a comma
DirComma == <<"/", "t", ",", "x">>

CodecRecords ==
    QueryRecords
        \cup { ToDict(Repository(UrlC, DirComma, PyNone, <<<<"x">>>>, Some(0), PyNone, PyNone)) }

CodecRegistries == SeqsUpTo(CodecRecords, MaxTools)

InitCodec ==
    /\ \E l \in CodecRegistries, ai \in BOOLEAN :
          cfg = [default_installation_directory |-> DirT,
                 automatic_install |-> ai, tools |-> l]
    /\ saved = cfg
    /\ dirs = {DirT, DirW}
    /\ files = {PathWB}
    /\ now = 2
    /\ last = [op |-> "init"]

\* tman export-conf writes conf.tman and the import codec decodes its tool
\* lines, one after the other
CallExportImport ==
    /\ last.op = "init"
    /\ \E lines \in {export_conf_lines(cfg)} :
          last' = [op |-> "export_import", time |-> now, lines |-> lines,
                   settings |-> decode_settings(cfg, pairs_of(lines[1])),
                   decoded |-> [i \in 1..Len(cfg.tools) |-> decode_line(lines[i + 1])]]
    /\ UNCHANGED <<cfg, saved, dirs, files, now>>

\* tool lines given to the decoder: one with its tags unquoted, the same one
\* with its tags as export-conf writes them, and the lines of import-conf
LineDemo ==
    <<"n", "a", "m", "e", "-", "d", "e", "m", "o", ",", "u", "r", "l", "-",
      "-", ",", "t", "y", "p", "e", "-", "l", "o", "c", "a", "l", ",", "t",
      "a", "g", "s", "-", "[", "t", "1", ",", "t", "2", "]", ",", "d", "i",
      "r", "e", "c", "t", "o", "r", "y", "-", "/", "t", "m", "p", "/", "d",
      "e", "m", "o">>
LineDemoQuoted ==
    <<"n", "a", "m", "e", "-", "d", "e", "m", "o", ",", "u", "r", "l", "-",
      "-", ",", "t", "y", "p", "e", "-", "l", "o", "c", "a", "l", ",", "t",
      "a", "g", "s", "-", "[", "'", "t", "1", "'", ",", " ", "'", "t", "2",
      "'", "]", ",", "d", "i", "r", "e", "c", "t", "o", "r", "y", "-", "/",
      "t", "m", "p", "/", "d", "e", "m", "o">>
CodecLines == {LineDemo, LineDemoQuoted} \cup ImportLines

\* _import_conf_file decodes one tool line and builds its tool
CallDecodeLine ==
    /\ last.op = "init"
    /\ \E line \in CodecLines :
          \E d \in {decode_line(line)} :
              last' = [op |-> "decode_line", time |-> now, line |-> line, d |-> d,
                       tool |-> IF d.raises THEN PyNone
                                ELSE Some(decoded_tool(d, now))]
    /\ UNCHANGED <<cfg, saved, dirs, files, now>>

\* the values of --types and of --tags
FilterTypes == {PyNone, Some(TypeGit), Some(TypeLocal), Some(TypesGitLocal),
                Some(<<"s", "v", "n">>)}
FilterTags == {PyNone, Some(<<"x">>), Some(<<"X">>), Some(<<"y">>),
               Some(<<"x", ",", "y">>), Some(<<" ", ",">>)}

\* tman import-conf <archive> --types <types> --tags <tags> of an archive
\* without tools whose conf.tman has one tool line
ImportConfFiltered ==
    /\ last.op = "init"
    /\ UNCHANGED <<files, now>>
    /\ \E settings \in SettingsLines, line \in CodecLines,
          types \in FilterTypes, tags \in FilterTags, overwrite \in BOOLEAN :
        /\ \E st \in {import_lines([cfg |-> decode_settings(saved,
                                                               SettingsPairs[settings]),
                                    saved |-> saved, raised |-> FALSE],
                                   get_tools(saved, FALSE), <<decode_line(line)>>,
                                   import_types_of(types), import_tags_of(tags),
                                   overwrite, now)} :
           \E fin \in {IF st.raised THEN st @@ [dirs |-> dirs]
                       ELSE auto_install([cfg |-> st.cfg, saved |-> st.cfg,
                                          dirs |-> dirs, raised |-> FALSE],
                                         git, now) : git \in CloneOutcomes} :
              /\ cfg' = fin.cfg
              /\ saved' = fin.saved
              /\ dirs' = fin.dirs
              /\ last' = [op |-> "import_filtered", time |-> now, pre |-> saved,
                          line |-> line, types |-> types, tags |-> tags,
                          overwrite |-> overwrite, raised |-> fin.raised,
                          exit |-> IF fin.raised THEN 1 ELSE 0]

\* a caller hands a tool to Config.update_tool of the loaded registry; raised
\* is the ValueError of list.remove
CallUpdateTool ==
    /\ last.op = "init"
    /\ \E tool \in Candidates :
          \E raised \in {update_tool_raises(cfg, tool)} :
              /\ cfg' = IF raised THEN cfg ELSE update_tool(cfg, tool)
              /\ last' = [op |-> "update_tool", pre |-> cfg, tool |-> tool,
                          raised |-> raised]
    /\ UNCHANGED <<saved, dirs, files, now>>

\* urls and base directories given to the constructors
UrlB == <<"g", "i", "t", "/", "b">>
UrlExample ==
    <<"h", "t", "t", "p", "s", ":", "/", "/", "e", "x", "a", "m", "p", "l",
      "e", ".", "c", "o", "m", "/", "f", "o", "o">>
UrlExampleGit == UrlExample \o DotGit
BaseExample ==
    <<"/", "h", "o", "m", "e", "/", "u", "/", ".", "t", "m", "a", "n", "/">>
ConstructUrls == {UrlA, UrlAGit, UrlAB, UrlB, UrlT, UrlExample}
ConstructDirs == {DirT, DirTSlash, DirTAB, DirWA, BaseExample}

\* a caller constructs a Repository from a url and a base directory, without
\* a name, and a LocalFile from a pathname
CallConstruct ==
    /\ last.op = "init"
    /\ \E url \in ConstructUrls, base \in ConstructDirs, pathname \in {PathWB, DirTSlash} :
          last' = [op |-> "construct", url |-> url, base |-> base,
                   pathname |-> pathname,
                   repository |-> Repository(url, base, PyNone, <<>>, Some(now),
                                             PyNone, PyNone),
                   localfile |-> LocalFile(pathname, PyNone, <<>>, Some(now),
                                           PyNone, PyNone)]
    /\ UNCHANGED <<cfg, saved, dirs, files, now>>

\* a caller empties the loaded registry with Config.remove_all_tools
CallRemoveAllTools ==
    /\ last.op = "init"
    /\ \E r \in {remove_all_tools(cfg)} :
          /\ cfg' = r.cfg
          /\ last' = [op |-> "remove_all_tools", pre |-> cfg,
                      count |-> r.count]
    /\ UNCHANGED <<saved, dirs, files, now>>

\* what the user types at the prompts of delete --all and scan
IndexInputs ==
    { <<"1">>, <<"2">>, <<"0">>, <<"3">>, <<"1", ",", "2">>,
      <<" ", "2", " ">>, <<"1", ",", "0">>, <<"x">>, <<"-", "1">>,
      <<"0", "1">>, <<"1", ",", ",", "9">> }

\* delete --all and scan hand the list shown to the user, one item per
\* registry tool here, and the typed string to sanitize_indexes
CallSanitizeIndexes ==
    /\ last.op = "init"
    /\ \E user_input \in IndexInputs :
          last' = [op |-> "sanitize_indexes", n |-> Len(cfg.tools),
                   user_input |-> user_input,
                   res |-> sanitize_indexes(Len(cfg.tools), user_input)]
    /\ UNCHANGED <<cfg, saved, dirs, files, now>>

NextCodec ==
    \/ CallExportImport \/ CallDecodeLine \/ ImportConfFiltered
    \/ CallUpdateTool \/ CallConstruct \/ CallRemoveAllTools
    \/ CallSanitizeIndexes

SpecCodec == InitCodec /\ [][NextCodec]_vars

----------------------------------------------------------------------------
(* Sequences of add commands over a disk that holds a directory /t/a/c *)

InitAdd ==
    /\ \E ai \in BOOLEAN :
          cfg = [default_installation_directory |-> DirT,
                 automatic_install |-> ai, tools |-> <<>>]
    /\ saved = cfg
    /\ dirs = {DirT, DirTA, DirTAC, DirW}
    /\ files = {PathWB}
    /\ now = 1
    /\ last = [op |-> "init"]

NestedInputs ==
    { [tool |-> UrlA, tags |-> PyNone],
      [tool |-> UrlAB, tags |-> PyNone],
      [tool |-> DirTAC, tags |-> PyNone],
      [tool |-> DirTA, tags |-> PyNone],
      [tool |-> DirT, tags |-> PyNone],
      [tool |-> PathWB, tags |-> Some(Str(<<"y">>))] }

AddNested == AddOf(NestedInputs)

\* install -u <url> and update -u <url> look the tool up with find_tool; the
\* url is the one the last add was given
FindByUrl ==
    /\ last.op = "add"
    /\ last.rets = <<0>>
    /\ is_git_url(last.input)
    /\ last' = [op |-> "find_tool", url |-> last.input, added |-> Val(last.tool),
                found |-> find_tool(saved, Some(last.input), PyNone, PyNone,
                                    PyNone, PyNone, FALSE)]
    /\ UNCHANGED <<cfg, saved, dirs, files, now>>

NextAdd == AddNested \/ AddFile \/ FindByUrl

SpecAdd == InitAdd /\ [][NextAdd]_vars

----------------------------------------------------------------------------
(* Properties of find_tool and already_managed (SpecQuery) *)

\* path p is dir itself or lies below it
IsSubPath(p, dir) == p = dir \/ StartsWith(p, dir \o <<"/">>)

\* the names a name criterion supplies
SuppliedNames(c) == IF c.k = "str" THEN {c.v} ELSE {c.v[i] : i \in 1..Len(c.v)}

FindCalled == last.op = "find_tool"
OnlyUrl == /\ ~IsNone(last.url) /\ IsNone(last.tags) /\ IsNone(last.name)
           /\ IsNone(last.type) /\ IsNone(last.last_update_date)
OnlyTags == /\ IsNone(last.url) /\ ~IsNone(last.tags) /\ IsNone(last.name)
            /\ IsNone(last.type) /\ IsNone(last.last_update_date)
OnlyName == /\ IsNone(last.url) /\ IsNone(last.tags) /\ ~IsNone(last.name)
            /\ IsNone(last.type) /\ IsNone(last.last_update_date)
NoCriterion == /\ IsNone(last.url) /\ IsNone(last.tags) /\ IsNone(last.name)
               /\ IsNone(last.type) /\ IsNone(last.last_update_date)

C3_StrictNameExact ==
    (FindCalled /\ ~last.f /\ OnlyName) =>
        LET all == get_tools(cfg, FALSE)
        IN \A i \in 1..Len(all) :
              InSeq(all[i], last.found)
                  <=> all[i].name \in SuppliedNames(Val(last.name))

\* C4: with a url criterion a tool is returned if and only if its url
\* equals the query url normalized to end with .git.
C4_UrlExact ==
    (FindCalled /\ OnlyUrl) =>
        LET all == get_tools(cfg, FALSE)
        IN \A i \in 1..Len(all) :
              InSeq(all[i], last.found)
                  <=> all[i].url = Val(find_url(last.url))

\* C5: in flexible mode (names given as the find command gives them, a tuple)
\* a tool is returned if and only if its name equals or contains one of the
\* supplied names, compared case-insensitively; strict mode does not return
\* a tool whose name merely contains the queried name.
C5_FlexibleName ==
    (FindCalled /\ OnlyName /\ Val(last.name).k = "tuple") =>
        LET all == get_tools(cfg, FALSE)
            ns == SuppliedNames(Val(last.name))
        IN \A i \in 1..Len(all) :
              IF last.f
              THEN InSeq(all[i], last.found)
                      <=> \E n \in ns : \/ Lower(all[i].name) = Lower(n)
                                        \/ Contains(Lower(all[i].name), Lower(n))
              ELSE (all[i].name \notin ns) => ~InSeq(all[i], last.found)

\* C5 witness: the flexible query "a" returned the tool named "ab"
C5_Witness ==
    /\ FindCalled /\ OnlyName /\ last.f
    /\ Val(last.name).k = "tuple"
    /\ Val(last.name).v = <<<<"a">>>>
    /\ \E i \in 1..Len(last.found) : last.found[i].name = <<"a", "b">>

C7_AlreadyManagedIsContainment ==
    last.op = "already_managed" =>
        LET all == get_tools(cfg, FALSE)
        IN last.result
             <=> \E i \in 1..Len(all) :
                    \/ all[i].name = last.tool.name
                    \/ /\ IsDir(dirs, all[i].directory)
                       /\ IsSubPath(last.tool.directory, all[i].directory)

----------------------------------------------------------------------------
(* Properties of the commands (Spec) *)

\* C1: after any sequence of add, add from a file, import-conf, scan,
\* install, update, modify and delete from an empty registry, no two records
\* of the registry's tools list have the same name.
C1_NamesUnique == UniqueNames(cfg.tools) /\ UniqueNames(saved.tools)

\* the calls of add_tool that a command made with the registry and the file
\* system it started from: the call of add, and the call of add -i for a
\* file that yields one tool
AddToolCalled ==
    \/ last.op = "add" /\ ~IsNone(last.tool)
    \/ last.op = "add_file" /\ Len(last.tools) = 1

CalledTool == IF last.op = "add" THEN Val(last.tool) ELSE last.tools[1]
CalledDirs == IF last.op = "add" THEN last.pre_dirs ELSE last.parsed_dirs
CalledFiles == IF last.op = "add" THEN last.pre_files ELSE last.parsed_files

\* the candidate is a local directory on disk and the directory of a managed
\* repository starts with it
HoldsManagedRepository(c, tool, ds) ==
    /\ is_localfile(tool)
    /\ IsDir(ds, tool.directory)
    /\ \E i \in 1..Len(c.tools) :
          /\ c.tools[i].url # <<"-">>
          /\ StartsWith(c.tools[i].directory, tool.directory)

\* the tools list and the persisted registry are as before the call
RegistryAsBefore == cfg.tools = last.pre.tools /\ saved = last.pre

\* C8, as stated: add_tool returns 3 for a candidate that is already managed
\* and 6 for a local directory that holds a managed repository, and in both
\* cases the tools list and the persisted registry are as before the call.
C8_RejectionCodesAsStated ==
    AddToolCalled =>
        /\ already_managed(last.pre, CalledTool, CalledDirs)
              => last.rets = <<3>> /\ RegistryAsBefore
        /\ HoldsManagedRepository(last.pre, CalledTool, CalledDirs)
              => last.rets = <<6>> /\ RegistryAsBefore

\* C8, amended: add_tool returns 6 for a local directory on disk that holds a
\* managed repository; otherwise it returns 3 for a candidate that is already
\* managed and, if it is local, exists on disk; in both cases the tools list
\* and the persisted registry are as before the call.
C8_RejectionCodes ==
    AddToolCalled =>
        /\ HoldsManagedRepository(last.pre, CalledTool, CalledDirs)
              => last.rets = <<6>> /\ RegistryAsBefore
        /\ ( /\ already_managed(last.pre, CalledTool, CalledDirs)
             /\ ~HoldsManagedRepository(last.pre, CalledTool, CalledDirs)
             /\ is_localfile(CalledTool)
                   => Exists(CalledDirs, CalledFiles, CalledTool.directory) )
              => last.rets = <<3>> /\ RegistryAsBefore

\* a candidate whose name is managed was rejected with 3
C8_Witness ==
    /\ AddToolCalled
    /\ last.rets = <<3>>
    /\ CalledTool.name \in Names(last.pre.tools)
    /\ RegistryAsBefore

\* a local directory that holds a managed repository was rejected with 6
C8_WitnessNested ==
    /\ AddToolCalled
    /\ last.rets = <<6>>
    /\ HoldsManagedRepository(last.pre, CalledTool, CalledDirs)
    /\ RegistryAsBefore

\* the records of the tool of that name: its install date and its last
\* update date
Stamps(c, name) ==
    {<<c.tools[i].install_date, c.tools[i].last_update_date>> :
        i \in {j \in 1..Len(c.tools) : c.tools[j].name = name}}

\* C9: when the pull of the update command succeeds for an installed
\* repository, its record in the registry saved at the end of the command
\* has last_update_date equal to the time of the update.
C9_UpdateSetsLastUpdateDate ==
    last.op = "update" =>
        \A i \in 1..Len(last.results) :
            last.results[i].res = 0 =>
                \A j \in 1..Len(saved.tools) :
                    saved.tools[j].name = last.results[i].name
                        => saved.tools[j].last_update_date = Some(last.time)

\* the names of the repositories whose pull, in the last command, reported
\* already-current (1) or failed (any other code but 0)
PullNotDone ==
    IF last.op = "update"
    THEN {last.results[i].name :
            i \in {j \in 1..Len(last.results) : last.results[j].res \notin {0, -1, 5}}}
    ELSE IF last.op = "install"
    THEN {last.results[i].name :
            i \in {j \in 1..Len(last.results) :
                     last.results[j].choice = "3" /\ last.results[j].second # 0}}
    ELSE {}

\* C10: when a pull of the update command or of install's update-in-place
\* reports already-current or fails, the tool's install_date and
\* last_update_date in the registry are after the command as before it.
C10_NoStampWithoutPull ==
    \A name \in PullNotDone :
        /\ Stamps(saved, name) = Stamps(last.pre, name)
        /\ Stamps(cfg, name) = Stamps(last.pre, name)

\* the names of the tools that the last install command cloned at once
InstallCloned ==
    {last.results[i].name :
        i \in {j \in 1..Len(last.results) : last.results[j].clone = 0}}

\* the names of the tools that the last install command cloned or resolved
\* by delete-and-clone or update-in-place
InstallActed ==
    {last.results[i].name :
        i \in {j \in 1..Len(last.results) :
                 last.results[j].clone = 0 \/ last.results[j].choice \in {"2", "3"}}}

\* the records of a registry whose names are not in a set, in order
OtherRecords(c, names) == SelectSeq(c.tools, LAMBDA r : r.name \notin names)

\* C11: when the clone of the install command succeeds for a repository, its
\* registry record has install_date and last_update_date equal to the time
\* of the install, and the records of the tools the command did not act on
\* are unchanged.
C11_InstallStampsBoth ==
    last.op = "install" =>
        /\ \A name \in InstallCloned :
              /\ Stamps(saved, name) = {<<Some(last.time), Some(last.time)>>}
              /\ Stamps(cfg, name) = {<<Some(last.time), Some(last.time)>>}
        /\ InstallCloned # {} =>
              /\ OtherRecords(saved, InstallActed) = OtherRecords(last.pre, InstallActed)
              /\ OtherRecords(cfg, InstallActed) = OtherRecords(last.pre, InstallActed)

\* a repository that was added at an earlier time was cloned by install, next
\* to another tool of the registry
C11_Witness ==
    /\ last.op = "install"
    /\ InstallCloned # {}
    /\ OtherRecords(last.pre, InstallActed) # <<>>
    /\ \E i \in 1..Len(last.pre.tools) :
          /\ last.pre.tools[i].name \in InstallCloned
          /\ last.pre.tools[i].install_date = PyNone
          /\ last.pre.tools[i].add_date # Some(last.time)

\* the records of a registry that have a name
RecordsNamed(c, name) == {c.tools[i] : i \in {j \in 1..Len(c.tools) : c.tools[j].name = name}}

\* the results of the last install command with an answer to the prompt
Answered(choice) ==
    {i \in 1..Len(last.results) :
        last.results[i].clone = 2 /\ last.results[i].choice = choice}

\* C12: in the install command, when clone returns 2, the directory found is
\* deleted only if "delete & clone" is chosen: without that answer nothing
\* on disk is removed; and with the answer "nothing" neither what is at or
\* below the tool's directory nor the tool's registry record changes.
C12_DeleteOnlyIfChosen ==
    last.op = "install" =>
        /\ Answered("2") = {} => last.pre_dirs \subseteq dirs /\ last.pre_files \subseteq files
        /\ \A i \in Answered("1") :
              /\ RecordsNamed(saved, last.results[i].name)
                    = RecordsNamed(last.pre, last.results[i].name)
              /\ RecordsNamed(cfg, last.results[i].name)
                    = RecordsNamed(last.pre, last.results[i].name)
              /\ \A r \in RecordsNamed(last.pre, last.results[i].name) :
                    /\ Below(dirs, r.directory) = Below(last.pre_dirs, r.directory)
                    /\ Below(files, r.directory) = Below(last.pre_files, r.directory)

\* install found the directory of a tool on disk and the answer was "nothing"
C12_Witness ==
    /\ last.op = "install"
    /\ \E i \in Answered("1") :
          \E r \in RecordsNamed(last.pre, last.results[i].name) :
              IsDir(last.pre_dirs, r.directory) /\ IsDir(dirs, r.directory)

\* install found the directory of a tool on disk, the answer was "delete &
\* clone", the second clone failed and the directory is gone
C12_WitnessDeleted ==
    /\ last.op = "install"
    /\ \E i \in Answered("2") :
          \E r \in RecordsNamed(last.pre, last.results[i].name) :
              IsDir(last.pre_dirs, r.directory) /\ ~IsDir(dirs, r.directory)

\* the install dates of the records of a registry that have a name
InstallDates(c, name) == {r.install_date : r \in RecordsNamed(c, name)}

C13_WitnessNull ==
    /\ last.op = "install"
    /\ \E i \in Answered("3") :
          /\ InstallDates(last.pre, last.results[i].name) = {PyNone}
          /\ InstallDates(saved, last.results[i].name) = {Some(last.time)}

(* Fourth specification: one scan command, step by step. The main thread   *)
(* starts the search thread and polls it; the search thread walks the      *)
(* directories and appends to the list they share. last holds the command: *)
(* pc is where the main thread is, search the state of the search thread,  *)
(* walk the directories os.walk has still to yield.                        *)

ScanRegistries ==
    { <<>>,
      <<ToDict(Repository(UrlA, DirTSlash, PyNone, <<<<"x">>>>, Some(0), PyNone, PyNone))>> }

ScanDirs == { {DirT, DirW},
              {DirT, DirW, DirWA, DirWAGit},
              {DirT, DirW, DirWA, DirWAGit, DirTA, DirTA \o SlashDotGit} }

InitScan ==
    /\ \E l \in ScanRegistries, ai \in BOOLEAN :
          cfg = [default_installation_directory |-> DirT,
                 automatic_install |-> ai, tools |-> l]
    /\ saved = cfg
    /\ dirs \in ScanDirs
    /\ files = {PathWB}
    /\ now = 2
    /\ last = [op |-> "init"]

\* scan, line 30-48: the Config is loaded, the root checked, the list created
\* and the search thread started; os.walk yields the directories in an order
\* of its own
ScanStart ==
    /\ last.op = "init"
    /\ cfg' = saved
    /\ UNCHANGED <<saved, dirs, files, now>>
    /\ \E root_dir \in {DirW, DirTA} :
          IF ~IsDir(dirs, root_dir)
          THEN last' = [op |-> "scan", time |-> now, pre |-> saved,
                        root_dir |-> root_dir, pc |-> "done", search |-> "unstarted",
                        walk |-> <<>>, repos_list |-> <<>>, consumed |-> <<>>,
                        exit |-> 2]
          ELSE \E walk \in Orders(Below(dirs, root_dir)) :
                  last' = [op |-> "scan", time |-> now, pre |-> saved,
                           root_dir |-> root_dir, pc |-> "poll", search |-> "alive",
                           walk |-> walk, repos_list |-> <<>>, consumed |-> <<>>,
                           exit |-> -1]

\* the process of the command is running
Running == last.op = "scan" /\ last.pc \notin {"done", "aborted"}

\* _repo_seeker, line 171-174: the next directory of the walk; it is appended
\* when one of its directories is named .git
SearchStep ==
    /\ Running /\ last.search = "alive" /\ last.walk # <<>>
    /\ last' = [last EXCEPT
                   !.walk = Tail(@),
                   !.repos_list = IF (Head(last.walk) \o SlashDotGit) \in dirs
                                  THEN Append(@, Head(last.walk)) ELSE @]
    /\ UNCHANGED <<cfg, saved, dirs, files, now>>

\* _repo_seeker returns and the thread ends
SearchEnd ==
    /\ Running /\ last.search = "alive" /\ last.walk = <<>>
    /\ last' = [last EXCEPT !.search = "dead"]
    /\ UNCHANGED <<cfg, saved, dirs, files, now>>

\* PollDead that leaves the loop without asking the thread
PollAny ==
    /\ Running /\ last.pc = "poll"
    /\ last' = [last EXCEPT !.pc = "list"]
    /\ UNCHANGED <<cfg, saved, dirs, files, now>>

\* scan, line 51: search.is_alive() is true, _animated_loading is called
PollAlive ==
    /\ Running /\ last.pc = "poll" /\ last.search = "alive"
    /\ last' = [last EXCEPT !.pc = "loading"]
    /\ UNCHANGED <<cfg, saved, dirs, files, now>>

\* scan, line 52: _animated_loading returns
Loaded ==
    /\ Running /\ last.pc = "loading"
    /\ last' = [last EXCEPT !.pc = "poll"]
    /\ UNCHANGED <<cfg, saved, dirs, files, now>>

\* scan, line 51: search.is_alive() is false, the loop ends
PollDead ==
    /\ Running /\ last.pc = "poll" /\ last.search # "alive"
    /\ last' = [last EXCEPT !.pc = "list"]
    /\ UNCHANGED <<cfg, saved, dirs, files, now>>

\* an interrupt handler that keeps what the search has found so far
InterruptKeeping ==
    /\ Running /\ last.pc \in {"poll", "loading"}
    /\ \E c \in {scan_loop(cfg, last.repos_list,
                            [i \in 1..Len(last.repos_list) |-> i - 1], TRUE, now)} :
          cfg' = c /\ saved' = c
    /\ last' = [last EXCEPT !.pc = "aborted", !.exit = 1]
    /\ UNCHANGED <<dirs, files, now>>

\* scan, line 53-56: KeyboardInterrupt inside the loop, click.Abort; the
\* search thread is a daemon and ends with the process
Interrupt ==
    /\ Running /\ last.pc \in {"poll", "loading"}
    /\ last' = [last EXCEPT !.pc = "aborted", !.exit = 1]
    /\ UNCHANGED <<cfg, saved, dirs, files, now>>

\* scan, line 58-157: the list is read, shown, and the repositories chosen
\* are added and saved
ScanList ==
    /\ Running /\ last.pc = "list"
    /\ UNCHANGED <<dirs, files, now>>
    /\ \E ans \in {a \in ScanAnswers : ~a.interrupt} :
       \E repos_list \in {last.repos_list} :
       \E chosen \in IF ans.add_all
                     THEN {[i \in 1..Len(repos_list) |-> i - 1]}
                     ELSE Orders(sanitize_indexes(Len(repos_list), ans.indexes)) :
          LET exit == IF repos_list = <<>> \/ ans.add_all THEN 0
                      ELSE IF ans.indexes = <<"q">> THEN 0
                      ELSE IF chosen = <<>> THEN 1 ELSE 0
              adds == /\ exit = 0
                      /\ repos_list # <<>>
                      /\ ans.add_all \/ ans.indexes # <<"q">>
          IN IF ~adds
             THEN /\ UNCHANGED <<cfg, saved>>
                  /\ last' = [last EXCEPT !.pc = "done", !.consumed = repos_list,
                                          !.exit = exit]
             ELSE \E c \in {scan_loop(cfg, repos_list, chosen, has_origin, now) :
                               has_origin \in BOOLEAN} :
                  /\ cfg' = c
                  /\ saved' = c
                  /\ last' = [last EXCEPT !.pc = "done", !.consumed = repos_list,
                                          !.exit = 0]

NextScan ==
    \/ ScanStart \/ SearchStep \/ SearchEnd
    \/ PollAlive \/ Loaded \/ PollDead \/ Interrupt \/ ScanList

SpecScan == InitScan /\ [][NextScan]_vars

----------------------------------------------------------------------------
(* Properties of import-conf (Spec) *)

\* what conf.tman carries of a record
Carried(r) == [name |-> r.name, url |-> r.url, type |-> r.type,
               directory |-> r.directory, tags |-> r.tags]
CarriedOf(l) == [i \in 1..Len(l) |-> Carried(l[i])]

\* the registry that the rule of C17 gives, line after line
RECURSIVE ImportedAsStated(_, _, _)
ImportedAsStated(reg, tools, overwrite) ==
    IF tools = <<>> THEN reg
    ELSE ImportedAsStated(
            IF Head(tools).name \in Names(reg)
            THEN IF overwrite
                 THEN Append(SelectSeq(reg, LAMBDA r : r.name # Head(tools).name),
                             Head(tools))
                 ELSE reg
            ELSE Append(reg, Head(tools)),
            Tail(tools), overwrite)

\* the same records, each as many times
SameRecords(l, m) ==
    /\ Len(l) = Len(m)
    /\ \A x \in {l[i] : i \in 1..Len(l)} \cup {m[i] : i \in 1..Len(m)} :
          Cardinality({i \in 1..Len(l) : l[i] = x})
              = Cardinality({i \in 1..Len(m) : m[i] = x})

\* the tools of the lines of the last import-conf
LineTools ==
    [i \in 1..Len(last.lines) |->
        Carried(ToDict(decoded_tool(DecodedLines[last.lines[i]], last.time)))]

\* C17: after import-conf (no filter, so every line passes) the registry is
\* what the stated rule gives: a line whose name is in the registry when the
\* line is processed replaces that record and leaves one record of the name
\* (confirmed) or changes nothing (refused); any other line appends a record.
C17_ImportReplacesOrAppends ==
    last.op = "import_conf" /\ ~last.raised =>
        \E overwrite \in BOOLEAN :
            /\ SameRecords(CarriedOf(saved.tools),
                           ImportedAsStated(CarriedOf(last.pre.tools), LineTools,
                                            overwrite))
            /\ cfg.tools = saved.tools

\* C17, for a conf.tman whose lines have different names and a registry with
\* unique names
C17_DistinctLines ==
    (last.op = "import_conf" /\ UniqueNames(LineTools)
        /\ UniqueNames(last.pre.tools))
      => C17_ImportReplacesOrAppends

\* a line replaced the record of its name and another one was appended
C17_Witness ==
    /\ last.op = "import_conf" /\ ~last.raised
    /\ UniqueNames(LineTools) /\ UniqueNames(last.pre.tools)
    /\ Len(LineTools) = 2 /\ Len(saved.tools) = 2
    /\ \E i \in 1..2 :
          /\ LineTools[i].name \in Names(last.pre.tools)
          /\ \E j \in 1..2 : /\ saved.tools[j].name = LineTools[i].name
                              /\ saved.tools[j].add_date = Some(last.time)
                              /\ saved.tools[j].add_date # last.pre.tools[1].add_date

----------------------------------------------------------------------------
(* Properties of the codec and of update_tool (SpecCodec) *)

\* the record of the tool that the i-th tool line of the export decodes to
Reimported(i) == ToDict(decoded_tool(last.decoded[i], last.time))

\* the fields that conf.tman carries
SameButDates(r, t) ==
    /\ r.name = t.name /\ r.url = t.url /\ r.type = t.type
    /\ r.directory = t.directory /\ r.tags = t.tags

\* C14: the tool lines that export-conf writes for a registry decode, line by
\* line, to tools with the name, url, type, directory and tags (same order)
\* of the registry's tools.
C14_ExportImportRoundTrip ==
    last.op = "export_import" =>
        \A i \in 1..Len(cfg.tools) :
            /\ ~last.decoded[i].raises
            /\ SameButDates(cfg.tools[i], Reimported(i))

\* no pathname of the registry holds a comma
NoComma == \A i \in 1..Len(cfg.tools) : ~Contains(cfg.tools[i].directory, <<",">>)

\* C14, on the registries without a comma in a directory
C14_RoundTripWithoutComma == NoComma => C14_ExportImportRoundTrip

\* a registry with a repository of two tags and a local file went through
C14_Witness ==
    /\ last.op = "export_import" /\ NoComma
    /\ \E i, j \in 1..Len(cfg.tools) :
          /\ Len(cfg.tools[i].tags) = 2 /\ cfg.tools[j].url = <<"-">>
          /\ SameButDates(cfg.tools[i], Reimported(i))

NameDemo == <<"d", "e", "m", "o">>
DirTmpDemo == <<"/", "t", "m", "p", "/", "d", "e", "m", "o">>

\* the decoder was given the line and built a LocalFile demo in /tmp/demo
DecodedDemo(line) ==
    /\ last.op = "decode_line" /\ last.line = line
    /\ ~IsNone(last.tool)
    /\ is_localfile(Val(last.tool))
    /\ Val(last.tool).name = NameDemo
    /\ Val(last.tool).directory = DirTmpDemo

\* C15: decoding "name-demo,url--,type-local,tags-[t1,t2],directory-/tmp/demo"
\* yields a LocalFile named demo with directory /tmp/demo whose tags are
\* exactly ["t1", "t2"].
C15_DemoLineDecodes ==
    last.op = "decode_line" /\ last.line = LineDemo =>
        DecodedDemo(LineDemo) /\ Val(last.tool).tags = <<<<"t", "1">>, <<"t", "2">>>>

\* what the decoder does with that line: the LocalFile, without any tag
C15_DemoLineLosesTags ==
    last.op = "decode_line" /\ last.line = LineDemo =>
        DecodedDemo(LineDemo) /\ Val(last.tool).tags = <<>>

\* and with the tags quoted as export-conf writes them
C15_QuotedDemoLineDecodes ==
    last.op = "decode_line" /\ last.line = LineDemoQuoted =>
        DecodedDemo(LineDemoQuoted)
            /\ Val(last.tool).tags = <<<<"t", "1">>, <<"t", "2">>>>

\* the tool of the line that import-conf was given
LineTool == decoded_tool(decode_line(last.line), last.time)

\* the tool of the line is in the registry, added by this import
Inserted ==
    \E i \in 1..Len(saved.tools) :
        /\ SameButDates(saved.tools[i], ToDict(LineTool))
        /\ saved.tools[i].add_date = Some(last.time)
        /\ cfg.tools[i] = saved.tools[i]

\* no record of that name was there, or overwriting was confirmed
Offered == last.overwrite \/ LineTool.name \notin Names(last.pre.tools)

\* the subset rule of find_tool: every filter tag is a tag of the tool,
\* compared in lower case
EveryFilterTag(tool, tags) == is_tags_ok(tool, sanitize_tags(Some(Str(Val(tags)))))

\* the type of the tool is one of the types of --types
OneOfTypes(tool, types) ==
    \E t \in {TypeGit, TypeLocal} :
        /\ tool.type = t
        /\ \E i \in 1..Len(Split(Val(types), ",")) : Strip(Split(Val(types), ",")[i]) = t

\* C16, --tags: with a tags filter and no types filter the tool of the line
\* is inserted if and only if every filter tag is among its tags, compared
\* case-insensitively.
C16_TagsFilter ==
    last.op = "import_filtered" /\ ~last.raised /\ Offered
        /\ ~IsNone(last.tags) /\ IsNone(last.types)
      => (Inserted <=> EveryFilterTag(LineTool, last.tags))

\* C16, --types: with a types filter and no tags filter the tool of the line
\* is inserted if and only if its type is one of the filter types.
C16_TypesFilter ==
    last.op = "import_filtered" /\ ~last.raised /\ Offered
        /\ ~IsNone(last.types) /\ IsNone(last.tags)
      => (Inserted <=> OneOfTypes(LineTool, last.types))

\* C16: both rules of the import filters
C16_ImportFilters == C16_TagsFilter /\ C16_TypesFilter

\* --tags x,y inserted a tool that has the tag x only
C16_WitnessAny ==
    /\ last.op = "import_filtered" /\ ~last.raised /\ Offered
    /\ last.tags = Some(<<"x", ",", "y">>) /\ IsNone(last.types)
    /\ LineTool.tags = <<<<"x">>>>
    /\ Inserted

\* --types local inserted a local file and --types git did not
C16_WitnessTypes ==
    /\ last.op = "import_filtered" /\ ~last.raised /\ Offered
    /\ last.types = Some(TypeLocal) /\ IsNone(last.tags)
    /\ is_localfile(LineTool) /\ Inserted

\* the records of a list that do not have the name, in their order
Others(l, name) == SelectSeq(l, LAMBDA r : r.name # name)

\* C18: update_tool(t) on a registry with unique names: when a record named
\* t.name exists, the number of records is the same, the other records are
\* the same in the same relative order and the record of t is the last one;
\* when no record has that name, the registry is unchanged.
C18_UpdateToolFrame ==
    last.op = "update_tool" /\ UniqueNames(last.pre.tools) =>
        /\ ~last.raised
        /\ IF last.tool.name \in Names(last.pre.tools)
           THEN /\ Len(cfg.tools) = Len(last.pre.tools)
                /\ Others(cfg.tools, last.tool.name)
                      = Others(last.pre.tools, last.tool.name)
                /\ cfg.tools[Len(cfg.tools)] = ToDict(last.tool)
                /\ cfg.default_installation_directory
                      = last.pre.default_installation_directory
                /\ cfg.automatic_install = last.pre.automatic_install
           ELSE cfg = last.pre

\* the first of two records was updated: it is the last one now, with the
\* fields of the tool, and the other record moved up
C18_Witness ==
    /\ last.op = "update_tool" /\ UniqueNames(last.pre.tools)
    /\ Len(last.pre.tools) = 2
    /\ last.pre.tools[1].name = last.tool.name
    /\ last.pre.tools[1] # ToDict(last.tool)
    /\ cfg.tools = <<last.pre.tools[2], ToDict(last.tool)>>

\* update_tool of a name that the registry does not hold
C18_WitnessAbsent ==
    /\ last.op = "update_tool" /\ UniqueNames(last.pre.tools)
    /\ last.pre.tools # <<>>
    /\ last.tool.name \notin Names(last.pre.tools)
    /\ cfg = last.pre

----------------------------------------------------------------------------
(* Properties of the scan command (SpecScan) *)

\* C19: the main flow of scan is past its polling loop, reading or having
\* read the list of repositories, only when the search thread has ended, its
\* walk complete; what was read is all that the thread appended.
C19_ReadAfterSearchEnded ==
    last.op = "scan" /\ last.search # "unstarted" =>
        /\ last.pc \in {"list", "done"} => last.search = "dead" /\ last.walk = <<>>
        /\ last.consumed # <<>> => last.search = "dead"
        /\ last.pc = "done" =>
              /\ last.consumed = last.repos_list
              /\ {last.consumed[i] : i \in 1..Len(last.consumed)}
                    = found_repos(dirs, last.root_dir)

\* the main flow read a repository after the end of the thread and added it
C19_Witness ==
    /\ last.op = "scan" /\ last.pc = "done"
    /\ last.search = "dead"
    /\ Len(last.consumed) = 1
    /\ cfg.tools # last.pre.tools

\* C20: after an interrupt in the polling loop the command has ended with
\* status 1, and the Config in memory and the saved registry are what they
\* were when the command started.
C20_InterruptLeavesRegistry ==
    last.op = "scan" /\ last.pc = "aborted" =>
        /\ cfg = last.pre
        /\ saved = last.pre
        /\ last.exit = 1

\* the interrupt came while the search thread was alive and had found a
\* repository that the registry does not hold
C20_Witness ==
    /\ last.op = "scan" /\ last.pc = "aborted"
    /\ last.search = "alive"
    /\ last.repos_list # <<>>
    /\ last.walk # <<>>
    /\ saved = last.pre

----------------------------------------------------------------------------
(* Properties of the tool constructors (SpecCodec) *)

\* the url given, without its trailing slashes
UrlGiven == RStrip(last.url, "/")

\* the url a Repository is to have: the one given, ".git" added if missing
UrlStated == IF EndsWith(UrlGiven, DotGit) THEN UrlGiven ELSE UrlGiven \o DotGit

\* the last path segment of that url, without ".git"
NameStated ==
    SubSeq(LastOf(Split(UrlStated, "/")), 1, Len(LastOf(Split(UrlStated, "/"))) - 4)

\* C21, the url and the name of a Repository and the url of a LocalFile
C21_UrlAndName ==
    last.op = "construct" =>
        /\ last.repository.url = UrlStated
        /\ last.repository.name = NameStated
        /\ last.localfile.url = <<"-">>

\* C21: a constructed Repository has a url ending with ".git", the trailing
\* slashes of the input removed, the url's last segment without ".git" as
\* its name, and the directory base_directory/name; a LocalFile has url "-".
C21_Constructors ==
    last.op = "construct" =>
        /\ C21_UrlAndName
        /\ last.repository.directory
              = RStrip(last.base, "/") \o <<"/">> \o NameStated
        /\ LastOf(Split(last.repository.directory, "/")) = NameStated

\* C21, the example: https://example.com/foo with base /home/u/.tman/
C21_Example ==
    last.op = "construct" /\ last.url = UrlExample /\ last.base = BaseExample =>
        /\ last.repository.name = <<"f", "o", "o">>
        /\ last.repository.url = UrlExampleGit
        /\ last.repository.directory = BaseExample \o <<"f", "o", "o">>

\* the example was constructed
C21_ExampleWitness ==
    last.op = "construct" /\ last.url = UrlExample /\ last.base = BaseExample

----------------------------------------------------------------------------
(* Properties of saving (Spec) *)

\* the commands that load the Config, change it and save it
SavingCommands ==
    {"add", "add_file", "install", "update", "delete", "delete_all", "modify",
     "scan", "import_conf"}

\* C22: whenever add, install, update, delete, modify, scan or import-conf
\* has ended, normally, by a usage or validation exit or by an aborted
\* prompt, the persisted registry equals the registry in memory
C22_SavedEqualsMemory ==
    last.op \in SavingCommands => saved = cfg

----------------------------------------------------------------------------
(* Properties of remove_all_tools (SpecCodec) *)

\* C23: remove_all_tools on a registry holding n tools returns n, leaves the
\* tools list empty and leaves default_installation_directory and
\* automatic_install as they were
C23_RemoveAllTools ==
    last.op = "remove_all_tools" =>
        /\ last.count = Len(last.pre.tools)
        /\ cfg.tools = <<>>
        /\ cfg.default_installation_directory
               = last.pre.default_installation_directory
        /\ cfg.automatic_install = last.pre.automatic_install
        /\ DOMAIN cfg = DOMAIN last.pre

\* a registry of MaxTools tools with automatic_install on has been emptied
C23_Witness ==
    /\ last.op = "remove_all_tools"
    /\ last.count = MaxTools
    /\ last.pre.automatic_install
    /\ cfg.tools = <<>>

----------------------------------------------------------------------------
(* Properties of add_tool with automatic_install (Spec) *)

\* add_tool was called with automatic_install on for a repository that is not
\* yet managed
AutoAdd ==
    /\ AddToolCalled
    /\ last.pre.automatic_install
    /\ is_git_repo(CalledTool)
    /\ ~already_managed(last.pre, CalledTool, CalledDirs)

\* the clone created the directory of the repository
CloneSucceeded ==
    /\ ~IsDir(CalledDirs, CalledTool.directory)
    /\ IsDir(dirs, CalledTool.directory)

\* the registry is the one before the call plus a record of the tool with
\* both dates set
AppendedInstalled ==
    /\ Len(cfg.tools) = Len(last.pre.tools) + 1
    /\ SubSeq(cfg.tools, 1, Len(last.pre.tools)) = last.pre.tools
    /\ LET rec == cfg.tools[Len(cfg.tools)]
       IN /\ rec.name = CalledTool.name
          /\ rec.url = CalledTool.url
          /\ rec.directory = CalledTool.directory
          /\ ~IsNone(rec.install_date)
          /\ ~IsNone(rec.last_update_date)
    /\ saved = cfg

\* C24: with automatic_install on, add_tool of a repository that is not yet
\* managed appends it, with install_date and last_update_date set, if and only
\* if the clone succeeded; otherwise the tools list and the persisted registry
\* are unchanged
C24_AppendIffCloned ==
    AutoAdd =>
        IF CloneSucceeded
        THEN last.rets = <<0>> /\ AppendedInstalled
        ELSE last.rets # <<0>> /\ RegistryAsBefore

\* a clone succeeded and the repository was appended
C24_Witness == AutoAdd /\ CloneSucceeded /\ AppendedInstalled

\* git failed in a directory that did not exist and nothing was appended
C24_WitnessFailed ==
    /\ AutoAdd
    /\ ~IsDir(CalledDirs, CalledTool.directory)
    /\ ~CloneSucceeded
    /\ RegistryAsBefore

\* C25: with automatic_install on, add_tool of a repository that is not yet
\* managed and whose destination directory exists returns 1; it returns 2
\* only for the other failures of the clone
C25_DirectoryCollisionCode ==
    AutoAdd =>
        /\ IsDir(CalledDirs, CalledTool.directory) => last.rets = <<1>>
        /\ last.rets = <<2>> => ~IsDir(CalledDirs, CalledTool.directory)

----------------------------------------------------------------------------
(* Properties of sanitize_indexes (SpecCodec) *)

\* the numbers the user entered: the pieces between commas that are decimal
\* numbers, blanks around them set aside
Entered(user_input) ==
    LET pieces == Split(user_input, ",")
    IN {ToInt(Strip(pieces[i])) :
          i \in {j \in 1..Len(pieces) : IsDigit(Strip(pieces[j]))}}

\* C26: every index i returned by sanitize_indexes for a list of n items
\* satisfies 0 <= i < n and i + 1 is a number the user entered
C26_ValidIndexes ==
    last.op = "sanitize_indexes" =>
        \A i \in last.res :
            /\ 0 <= i
            /\ i < last.n
            /\ i + 1 \in Entered(last.user_input)

\* the indexes returned are the entered numbers below n + 1, less one
C26_EnteredBelowBound ==
    last.op = "sanitize_indexes" =>
        last.res = {k - 1 : k \in {e \in Entered(last.user_input) : e <= last.n}}

----------------------------------------------------------------------------
(* Properties of sequences of add (SpecAdd) *)

\* the pathname a is below the directory b
Inside(a, b) == StartsWith(RStrip(a, "/"), RStrip(b, "/") \o <<"/">>)

\* C29: after a repository has been added with a url that add accepts as a
\* git url, find_tool with that url returns the repository
C29_FoundByItsUrl ==
    last.op = "find_tool" =>
        \E i \in 1..Len(last.found) :
            /\ last.found[i].name = last.added.name
            /\ last.found[i].url = last.added.url

\* the same for the urls that do not end with a slash
C29_FoundByUrlWithoutSlash ==
    last.op = "find_tool" /\ ~EndsWith(last.url, <<"/">>) =>
        \E i \in 1..Len(last.found) :
            /\ last.found[i].name = last.added.name
            /\ last.found[i].url = last.added.url

\* C27: after any sequence of successful add operations, no registry tool's
\* directory lies inside another registry tool's directory
C27_NoNestedDirectories ==
    \A i, j \in 1..Len(cfg.tools) :
        i # j => ~Inside(cfg.tools[i].directory, cfg.tools[j].directory)

----------------------------------------------------------------------------
(* Properties of the dates set by install (Spec) *)

\* C28: when install has finished, every repository whose install_date or
\* last_update_date the command set or changed had its clone or its pull
\* succeed and has its directory on disk
C28_StampedOnlyIfInstalled ==
    last.op = "install" /\ UniqueNames(last.pre.tools) =>
        \A i \in 1..Len(last.results) :
            LET r == last.results[i]
            IN Stamps(cfg, r.name) # Stamps(last.pre, r.name) =>
                  /\ r.clone = 0 \/ r.second = 0
                  /\ \A k \in 1..Len(cfg.tools) :
                        cfg.tools[k].name = r.name
                            => IsDir(dirs, cfg.tools[k].directory)

\* the same for the tools whose directory was found and updated in place
C28_StampedOnlyIfPulled ==
    last.op = "install" /\ UniqueNames(last.pre.tools) =>
        \A i \in 1..Len(last.results) :
            LET r == last.results[i]
            IN r.choice = "3" /\ Stamps(cfg, r.name) # Stamps(last.pre, r.name)
                  => r.second = 0

----------------------------------------------------------------------------
(* Properties of the stored records (Spec) *)

\* the records that get_tools rebuilds and converts back to their storage
\* form are the records of the registry
RebuiltIdentically(c) ==
    LET ts == get_tools(c, FALSE)
    IN /\ Len(ts) = Len(c.tools)
       /\ \A i \in 1..Len(ts) : ToDict(ts[i]) = c.tools[i]

\* remove_tool of the tool finds its record and removes that one record
RemovesItsRecord(c, tool) ==
    /\ ~NoRecord(c, tool)
    /\ LET after == remove_tool(c, tool).tools
       IN /\ Len(after) = Len(c.tools) - 1
          /\ \E k \in 1..Len(c.tools) :
                /\ c.tools[k] = ToDict(tool)
                /\ after = SubSeq(c.tools, 1, k - 1)
                             \o SubSeq(c.tools, k + 1, Len(c.tools))

\* how many times the record r is in the list l
Count(l, r) == Cardinality({i \in 1..Len(l) : l[i] = r})

\* update_tool of the tool finds its record and replaces that one record by
\* the record of the tool: every record is in the registry as many times as
\* before
UpdatesItsRecord(c, tool) ==
    /\ ~update_tool_raises(c, tool)
    /\ LET after == update_tool(c, tool).tools
       IN /\ Len(after) = Len(c.tools)
          /\ \A k \in 1..Len(c.tools) :
                Count(after, c.tools[k]) = Count(c.tools, c.tools[k])

\* C30: every record stored by add, scan, import, install or modify is
\* reproduced identically by get_tools followed by the conversion to the
\* storage form, and remove_tool or update_tool of any tool returned by
\* get_tools finds its record and removes exactly that one
C30_RecordsRoundTrip ==
    /\ RebuiltIdentically(saved)
    /\ LET ts == get_tools(saved, FALSE)
       IN \A i \in 1..Len(ts) :
             /\ RemovesItsRecord(saved, ts[i])
             /\ UpdatesItsRecord(saved, ts[i])

\* the same on registries whose names are unique
C30_RoundTripUniqueNames ==
    UniqueNames(saved.tools) =>
        /\ RebuiltIdentically(saved)
        /\ LET ts == get_tools(saved, FALSE)
           IN \A i \in 1..Len(ts) :
                 /\ RemovesItsRecord(saved, ts[i])
                 /\ UpdatesItsRecord(saved, ts[i])

\* a registry of repositories and local tools, some of them installed
C30_Witness ==
    /\ Len(saved.tools) = MaxTools
    /\ \E i \in 1..Len(saved.tools) : saved.tools[i].url = <<"-">>
    /\ \E i \in 1..Len(saved.tools) : ~IsNone(saved.tools[i].install_date)
    /\ last.op \in SavingCommands

====
